---- MODULE Spec2Model ----
(***************************************************************************)
(* A model of the LOV mirror pipeline (scripts/lov-mirror): version         *)
(* resolution, cache check, fetch, conversion, term extraction and          *)
(* persistence per vocabulary, run by a pool of async workers, followed by  *)
(* aggregation.  Several runs of the program follow each other on the same  *)
(* output directory.                                                        *)
(*                                                                          *)
(* Strings of the program are strings here.  JavaScript's undefined, null   *)
(* and "" are all falsy in the places the program tests them; they are      *)
(* written NULL ("") in the model.  Timestamps written by the program       *)
(* (fetchedAt, generatedAt) are left out.                                   *)
(***************************************************************************)
EXTENDS Integers, Sequences, FiniteSets, TLC

\* ------------------------------------------------------------------ bounds
\* Number of runs of the program on the same output directory.
MaxRuns == 2
\* Largest worker pool size (CONCURRENCY) a run is started with.
MaxWorkers == 2
\* Largest number of version entries in a registry info response.
MaxVersions == 3

\* ------------------------------------------------------------------ values
NULL == ""

OUT_FILENAME == "ontology.ttl"

\* terms.ts: namespaces are written out, RDF + "type" is one string.
rdfType == "http://www.w3.org/1999/02/22-rdf-syntax-ns#type"
rdfProperty == "http://www.w3.org/1999/02/22-rdf-syntax-ns#Property"
rdfsClass == "http://www.w3.org/2000/01/rdf-schema#Class"
rdfsLabel == "http://www.w3.org/2000/01/rdf-schema#label"
rdfsComment == "http://www.w3.org/2000/01/rdf-schema#comment"
owlClass == "http://www.w3.org/2002/07/owl#Class"
owlObjectProperty == "http://www.w3.org/2002/07/owl#ObjectProperty"
owlDatatypeProperty == "http://www.w3.org/2002/07/owl#DatatypeProperty"
skosPrefLabel == "http://www.w3.org/2004/02/skos/core#prefLabel"
skosDefinition == "http://www.w3.org/2004/02/skos/core#definition"
skosScopeNote == "http://www.w3.org/2004/02/skos/core#scopeNote"
dctTitle == "http://purl.org/dc/terms/title"
dctDescription == "http://purl.org/dc/terms/description"

CLASS_TYPES == {owlClass, rdfsClass}

PROPERTY_TYPES ==
  { rdfProperty,
    owlObjectProperty,
    owlDatatypeProperty,
    "http://www.w3.org/2002/07/owl#AnnotationProperty",
    "http://www.w3.org/2002/07/owl#FunctionalProperty",
    "http://www.w3.org/2002/07/owl#InverseFunctionalProperty",
    "http://www.w3.org/2002/07/owl#TransitiveProperty",
    "http://www.w3.org/2002/07/owl#SymmetricProperty",
    "http://www.w3.org/2002/07/owl#AsymmetricProperty",
    "http://www.w3.org/2002/07/owl#ReflexiveProperty",
    "http://www.w3.org/2002/07/owl#IrreflexiveProperty" }

DEF_PREDICATES ==
  { rdfType,
    rdfsLabel,
    rdfsComment,
    "http://www.w3.org/2000/01/rdf-schema#isDefinedBy",
    "http://www.w3.org/2000/01/rdf-schema#seeAlso",
    "http://www.w3.org/2000/01/rdf-schema#subClassOf",
    "http://www.w3.org/2000/01/rdf-schema#subPropertyOf",
    "http://www.w3.org/2000/01/rdf-schema#domain",
    "http://www.w3.org/2000/01/rdf-schema#range",
    "http://www.w3.org/2002/07/owl#equivalentClass",
    "http://www.w3.org/2002/07/owl#equivalentProperty",
    "http://www.w3.org/2002/07/owl#inverseOf",
    "http://www.w3.org/2002/07/owl#deprecated",
    skosPrefLabel,
    "http://www.w3.org/2004/02/skos/core#altLabel",
    skosDefinition,
    skosScopeNote,
    "http://www.w3.org/2004/02/skos/core#example",
    dctTitle,
    dctDescription }

\* ------------------------------------------------------------------ strings
\* The character at position k of a string (from 1), as a string.
Char(s, k) == SubSeq(s, k, k)

CharsOf(s) == { Char(s, k) : k \in 1..Len(s) }

UpperChars == "ABCDEFGHIJKLMNOPQRSTUVWXYZ"
LowerChars == "abcdefghijklmnopqrstuvwxyz"
Digits == "0123456789"

\* The lower-case letter of each capital.
LowerOf ==
  [ c \in CharsOf(UpperChars) |->
      Char(LowerChars, CHOOSE k \in 1..Len(UpperChars) : Char(UpperChars, k) = c) ]

toLowerChar(c) == IF c \in DOMAIN LowerOf THEN LowerOf[c] ELSE c

\* The characters of s from position k on, each in lower case.
RECURSIVE LowerFrom(_, _)
LowerFrom(s, k) ==
  IF k > Len(s) THEN "" ELSE toLowerChar(Char(s, k)) \o LowerFrom(s, k + 1)

\* String.prototype.toLowerCase, on ASCII.
toLowerCase(s) == LowerFrom(s, 1)

WhiteSpace == {" ", "\t", "\n", "\r"}

\* The element of a set of one.  { F(v) : v \in {x} } holds F of the value of x: x is
\* evaluated once, whatever F does with it.
Only(S) == CHOOSE r \in S : TRUE

\* String.prototype.trim.
trim(s) ==
  LET black == { k \in 1..Len(s) : Char(s, k) \notin WhiteSpace }
  IN IF black = {} THEN ""
     ELSE SubSeq(s, CHOOSE k \in black : \A m \in black : k <= m,
                    CHOOSE k \in black : \A m \in black : m <= k)

\* ------------------------------------------------------------------ RDF terms and graphs
NamedNode(v) == [termType |-> "NamedNode", value |-> v]
Literal(v) == [termType |-> "Literal", value |-> v]
BlankNode(v) == [termType |-> "BlankNode", value |-> v]
Quad(s, p, o) == [subject |-> s, predicate |-> p, object |-> o]

isNamedNodeIri(x) == x.termType = "NamedNode"

\* IRIs of the vocabularies the model's registry serves.
exThing == "http://example.org/ex#Thing"
exOther == "http://example.org/ex#Other"
exKnows == "http://example.org/ex#knows"
exNote == "http://example.org/ex#note"

\* The lexicographic order of the IRIs above (Array.prototype.sort on strings).
IriOrder == <<exOther, exThing, exKnows, exNote>>

\* (IriRankIgnoringCase: the rank in an order that ignores case, as localeCompare does.)
IriRankIgnoringCase(iri) == CHOOSE k \in 1..4 : <<exKnows, exNote, exOther, exThing>>[k] = iri

IriRank(iri) == CHOOSE k \in 1..Len(IriOrder) : IriOrder[k] = iri

RECURSIVE SortIris(_)
SortIris(S) ==
  IF S = {} THEN <<>>
  ELSE LET m == CHOOSE x \in S : \A y \in S : IriRank(x) <= IriRank(y)
       IN <<m>> \o SortIris(S \ {m})

\* store.getQuads(s, p, null, null) with null for "any".
getQuads(store, s, p) ==
  { q \in store : (s = NULL \/ q.subject = NamedNode(s))
               /\ (p = NULL \/ q.predicate = NamedNode(p)) }

\* A variant that lists a subject once, as a class if it is one.
findClassesOrProperties(store) ==
  LET typed == { q \in getQuads(store, NULL, rdfType) :
                   isNamedNodeIri(q.subject) /\ isNamedNodeIri(q.object) }
      classes == { q.subject.value : q \in { t \in typed : t.object.value \in CLASS_TYPES } }
  IN [ classes |-> SortIris(classes),
       properties |-> SortIris({ q.subject.value : q \in { t \in typed : t.object.value \in PROPERTY_TYPES } }
                                 \ classes) ]

findClassesAndProperties(store) ==
  LET typed == { q \in getQuads(store, NULL, rdfType) :
                   isNamedNodeIri(q.subject) /\ isNamedNodeIri(q.object) }
  IN [ classes |-> SortIris({ q.subject.value : q \in { t \in typed : t.object.value \in CLASS_TYPES } }),
       properties |-> SortIris({ q.subject.value : q \in { t \in typed : t.object.value \in PROPERTY_TYPES } }) ]

\* The quads writeTinyTermFile keeps for a term.
TinyQuadsNoPredicateFilter(store, termIri) == getQuads(store, termIri, NULL)

\* (TinyQuadsOnlyType: a variant that keeps the rdf:type quads only.)
TinyQuadsOnlyType(store, termIri) == getQuads(store, termIri, rdfType)

\* (TinyQuadsWithoutType: a variant whose allow-list lacks rdf:type.)
TinyQuadsWithoutType(store, termIri) ==
  { q \in getQuads(store, termIri, NULL) :
      isNamedNodeIri(q.predicate) /\ q.predicate.value \in DEF_PREDICATES \ {rdfType} }

TinyQuads(store, termIri) ==
  { q \in getQuads(store, termIri, NULL) :
      isNamedNodeIri(q.predicate) /\ q.predicate.value \in DEF_PREDICATES }

\* ------------------------------------------------------------------ terms.ts: summaries
litValue(x) == IF x.termType = "Literal" THEN x.value ELSE NULL

\* The values pickFirstLiteral can return: trimmed, non-blank literal objects.
LiteralCandidates(store, subjIri, predicateIri) ==
  { trim(litValue(q.object)) :
      q \in { c \in getQuads(store, subjIri, predicateIri) :
                litValue(c.object) # NULL /\ trim(litValue(c.object)) # NULL } }

\* A variant that gives a predicate up when one of its values is blank or no literal.
pickFirstLiteralGivesUp(store, subjIri, predicateIri) ==
  LET qs == getQuads(store, subjIri, predicateIri)
  IN IF \E q \in qs : litValue(q.object) = NULL \/ trim(litValue(q.object)) = NULL
       THEN NULL
       ELSE IF qs = {} THEN NULL ELSE CHOOSE v \in { trim(litValue(q.object)) : q \in qs } : TRUE

\* The first such value in the store's iteration order; NULL when there is none.
pickFirstLiteral(store, subjIri, predicateIri) ==
  LET c == LiteralCandidates(store, subjIri, predicateIri)
  IN IF c = {} THEN NULL ELSE CHOOSE v \in c : TRUE

\* a ?? b ?? ... : the first non-null of a sequence, NULL (undefined) when none.
RECURSIVE Coalesce(_)
Coalesce(vals) ==
  IF vals = <<>> THEN NULL
  ELSE IF Head(vals) # NULL THEN Head(vals) ELSE Coalesce(Tail(vals))

\* A variant that prefers rdfs:label.
extractTermSummaryLabelFirst(store, termIri) ==
  [ label |-> Coalesce(<< pickFirstLiteral(store, termIri, rdfsLabel),
                          pickFirstLiteral(store, termIri, skosPrefLabel),
                          pickFirstLiteral(store, termIri, dctTitle) >>),
    description |-> Coalesce(<< pickFirstLiteral(store, termIri, skosDefinition),
                                pickFirstLiteral(store, termIri, rdfsComment),
                                pickFirstLiteral(store, termIri, dctDescription),
                                pickFirstLiteral(store, termIri, skosScopeNote) >>) ]

extractTermSummary(store, termIri) ==
  [ label |-> Coalesce(<< pickFirstLiteral(store, termIri, skosPrefLabel),
                          pickFirstLiteral(store, termIri, rdfsLabel),
                          pickFirstLiteral(store, termIri, dctTitle) >>),
    description |-> Coalesce(<< pickFirstLiteral(store, termIri, skosDefinition),
                                pickFirstLiteral(store, termIri, rdfsComment),
                                pickFirstLiteral(store, termIri, dctDescription),
                                pickFirstLiteral(store, termIri, skosScopeNote) >>) ]

\* ------------------------------------------------------------------ the registry and the web (inputs)
Prefixes == <<"ex", "ex2", "ex3">>
UriEx == "http://example.org/ex#"
UriEx2 == "http://example.org/ex2#"
UriEx3 == "http://example.org/ex3#"
NsEx == "http://example.org/ex#"

\* encodeURIComponent on the strings of the model.
encodeURIComponent(x) ==
  CASE x = UriEx -> "http%3A%2F%2Fexample.org%2Fex%23"
    [] x = UriEx2 -> "http%3A%2F%2Fexample.org%2Fex2%23"
    [] x = UriEx3 -> "http%3A%2F%2Fexample.org%2Fex3%23"
    [] x = exThing -> "http%3A%2F%2Fexample.org%2Fex%23Thing"
    [] x = exOther -> "http%3A%2F%2Fexample.org%2Fex%23Other"
    [] x = exKnows -> "http%3A%2F%2Fexample.org%2Fex%23knows"
    [] x = exNote -> "http%3A%2F%2Fexample.org%2Fex%23note"
    [] OTHER -> x

encPrefixSegment(x) == encodeURIComponent(x)
encUriSegment(x) == encodeURIComponent(x)

\* a.prefix.localeCompare(b.prefix) < 0 on the prefixes of the model.
PrefixRank(p) == CHOOSE k \in 1..Len(Prefixes) : Prefixes[k] = p

\* Registry listings (LovListEntry[]); an absent field is NULL.
ListEntry(prefix, vocab, uri, nsp, namespace) ==
  [prefix |-> prefix, vocab |-> vocab, uri |-> uri, nsp |-> nsp, namespace |-> namespace]

\* A single vocabulary, and an entry without prefix and vocab.
SingleListing ==
  << ListEntry(NULL, NULL, UriEx2, NULL, NULL),
     ListEntry("ex", NULL, UriEx, NsEx, NULL) >>

Listings ==
  { \* two vocabularies with distinct canonical URIs, listed out of prefix order
    << ListEntry(NULL, "ex2", UriEx2, NULL, NULL),
       ListEntry("ex", NULL, UriEx, NsEx, NULL) >>,
    \* two vocabularies sharing one canonical URI, and an entry without a URI
    << ListEntry("ex", NULL, UriEx, NULL, NsEx),
       ListEntry("nouri", NULL, NULL, NULL, NULL),
       ListEntry("ex2", NULL, UriEx, NULL, NsEx) >>,
    SingleListing }

NsEx2 == "http://example.org/ex2#"

\* Listings of two vocabularies that declare two namespaces, one namespace and none,
\* the same namespace, an empty namespace, and none at all.
NamespaceListings ==
  { << ListEntry("ex2", NULL, UriEx2, NsEx2, NULL), ListEntry("ex", NULL, UriEx, NsEx, NULL) >>,
    << ListEntry("ex2", NULL, UriEx2, NULL, NULL), ListEntry("ex", NULL, UriEx, NULL, NsEx) >>,
    << ListEntry("ex", NULL, UriEx, NsEx, NsEx2), ListEntry("ex2", NULL, UriEx2, NULL, NsEx) >>,
    << ListEntry("ex", NULL, UriEx, "", NULL), ListEntry("ex2", NULL, UriEx2, NULL, NsEx2) >>,
    << ListEntry("ex", NULL, UriEx, NULL, NULL), ListEntry("ex2", NULL, UriEx2, NULL, NULL) >> }

\* Three vocabularies, more than the largest pool has workers.
ThreeListing ==
  << ListEntry("ex2", NULL, UriEx2, NULL, NULL),
     ListEntry("ex", NULL, UriEx, NsEx, NULL),
     ListEntry("ex3", NULL, UriEx3, NULL, NULL) >>

pickPrefix(v) == IF v.prefix # NULL THEN v.prefix ELSE v.vocab
pickUri(v) == v.uri
pickNamespace(v) == IF v.nsp # NULL THEN v.nsp ELSE v.namespace

RECURSIVE MapFilterList(_)
MapFilterList(list) ==
  IF list = <<>> THEN <<>>
  ELSE LET v == Head(list)
           rest == MapFilterList(Tail(list))
       IN IF pickPrefix(v) = NULL \/ pickUri(v) = NULL THEN rest
          ELSE <<[prefix |-> pickPrefix(v), uri |-> pickUri(v), namespace |-> pickNamespace(v)]>> \o rest

\* fetchLovList applied to the listing the registry returned.
fetchLovList(list) == MapFilterList(list)

\* Issuance timestamps and Date.parse on them; NaN is -1.
Issued2023 == "2023-01-01T00:00:00Z"
Issued2024 == "2024-06-01T00:00:00Z"
IssuedJunk == "unknown"
\* The instant of Issued2024, written with a time zone offset.
Issued2024Offset == "2024-06-01T02:00:00+02:00"

parseIssuedMs(issued) ==
  CASE issued = Issued2023 -> 1672531200
    [] issued = Issued2024 -> 1717200000
    [] issued = Issued2024Offset -> 1717200000
    [] OTHER -> -1

IsFinite(ms) == ms >= 0

\* File URLs and urlExt on them.
FileTtl == "https://example.org/ex/v1.ttl"
FileNew == "https://example.org/ex/v2"
FileRdf == "https://example.org/ex/v1.rdf"

\* [a-z0-9] under the i flag.
Alnum == CharsOf(LowerChars) \cup CharsOf(UpperChars) \cup CharsOf(Digits)

IsAlnum(c) == c \in Alnum

\* The end of the longest run of [a-z0-9] that starts after position k.
RunEnd(s, k) ==
  CHOOSE j \in k..Len(s) :
    /\ \A m \in (k + 1)..j : IsAlnum(Char(s, m))
    /\ j = Len(s) \/ ~IsAlnum(Char(s, j + 1))

\* The positions where /\.([a-z0-9]+)(?:\?|#|$)/i matches: a dot, a non-empty run of
\* [a-z0-9], then "?", "#" or the end of the string.
ExtMatches(s) ==
  { k \in 1..Len(s) :
      /\ Char(s, k) = "."
      /\ RunEnd(s, k) > k
      /\ RunEnd(s, k) = Len(s) \/ Char(s, RunEnd(s, k) + 1) \in {"?", "#"} }

\* url.match(...) takes the leftmost match; its group, lower-cased, or "".
urlExt(url) ==
  IF ExtMatches(url) = {} THEN ""
  ELSE LET k == CHOOSE d \in ExtMatches(url) : \A e \in ExtMatches(url) : d <= e
       IN Only({ toLowerCase(group) : group \in {SubSeq(url, k + 1, RunEnd(url, k))} })

Version(fileURL, issued) == [fileURL |-> fileURL, issued |-> issued]
NoLatest == Version(NULL, NULL)

\* candidates.sort((a, b) => b.issuedMs - a.issuedMs)[0]: the sort is stable, so
\* of the candidates with the greatest issuedMs the first in input order.
\* (FirstCandidate: a variant without the sort.)
FirstCandidate(candidates) == candidates[1]

\* (LastMax: a variant that takes the last of the candidates with the greatest issuedMs.)
LastMax(candidates) ==
  LET k == CHOOSE j \in 1..Len(candidates) :
             /\ \A m \in 1..Len(candidates) :
                  parseIssuedMs(candidates[m].issued) <= parseIssuedMs(candidates[j].issued)
             /\ \A m \in (j + 1)..Len(candidates) :
                  parseIssuedMs(candidates[m].issued) < parseIssuedMs(candidates[j].issued)
  IN candidates[k]

FirstMax(candidates) ==
  LET k == CHOOSE j \in 1..Len(candidates) :
             /\ \A m \in 1..Len(candidates) :
                  parseIssuedMs(candidates[m].issued) <= parseIssuedMs(candidates[j].issued)
             /\ \A m \in 1..(j - 1) :
                  parseIssuedMs(candidates[m].issued) < parseIssuedMs(candidates[j].issued)
  IN candidates[k]

\* extractLatestVersion on the info response's versions (after fetchJson succeeded).
extractLatestVersion(versions) ==
  LET withFile == SelectSeq(versions, LAMBDA v : v.fileURL # NULL /\ v.issued # NULL)
      candidates == SelectSeq(withFile, LAMBDA x : IsFinite(parseIssuedMs(x.issued)))
  IN IF Len(candidates) = 0 THEN NoLatest
     ELSE Version(FirstMax(candidates).fileURL, FirstMax(candidates).issued)

\* A registry info response: the call fails (fetchJson throws) or returns versions.
InfoErr == [ok |-> FALSE, versions |-> <<>>]
Info(versions) == [ok |-> TRUE, versions |-> versions]

\* An info call that never returns: fetch() neither resolves nor rejects.
InfoHangs == [ok |-> FALSE, versions |-> <<>>, hangs |-> TRUE]

\* Whether the awaited call never returns.
Hangs(answer) == "hangs" \in DOMAIN answer

\* Content-Type headers.  No header is null.
NoHeader == NULL
CtTurtle == "Text/Turtle ; charset=utf-8"
CtRdfXml == "application/rdf+xml"
CtHtml == "text/html"

\* ct.split(";")[0]: the part before the first ";".
FirstPart(ct) ==
  LET at == { k \in 1..Len(ct) : Char(ct, k) = ";" }
  IN IF at = {} THEN ct ELSE SubSeq(ct, 1, (CHOOSE k \in at : \A m \in at : k <= m) - 1)

TrimLower(part) == Only({ toLowerCase(t) : t \in { trim(p) : p \in {part} } })

contentTypeBase(ct) == IF ct = NoHeader THEN NULL ELSE TrimLower(FirstPart(ct))

\* What the file server answers: a thrown fetch, or a status with header and body.
HttpThrows == [throws |-> TRUE, status |-> 0, contentType |-> NoHeader, text |-> NULL]
\* A request for a file that never returns.
HttpHangs == [throws |-> FALSE, status |-> 0, contentType |-> NoHeader, text |-> NULL, hangs |-> TRUE]

Http(status, contentType, text) ==
  [throws |-> FALSE, status |-> status, contentType |-> contentType, text |-> text]

ResOk(status) == status >= 200 /\ status <= 299

FetchResult(ok, status, contentType, text, finalUrl, error) ==
  [ok |-> ok, status |-> status, contentType |-> contentType, text |-> text,
   finalUrl |-> finalUrl, error |-> error]

\* fetchText(url) given the server's answer.
fetchText(url, res) ==
  IF res.throws
    THEN FetchResult(FALSE, 0, NoHeader, NULL, url, "fetch failed")
  ELSE IF ~ResOk(res.status)
    THEN FetchResult(FALSE, res.status, res.contentType, NULL, url, NULL)
  ELSE FetchResult(TRUE, res.status, res.contentType, res.text, url, NULL)

\* ------------------------------------------------------------------ rdf.ts
\* n3FormatFor: MIME table, then extension table, then the declined formats, then
\* turtle.  (n3FormatForExtensionFirst: a variant that asks the extension first.)
n3FormatForExtensionFirst(contentType, sourceUrl) ==
  Only({
     CASE ext = "ttl" -> "turtle"
       [] ext = "n3" -> "n3"
       [] ext = "nt" -> "ntriples"
       [] ext = "trig" -> "trig"
       [] OTHER ->
          CASE ct \in {"text/turtle", "application/x-turtle"} -> "turtle"
            [] ct \in {"text/n3", "text/rdf+n3"} -> "n3"
            [] ct = "application/n-triples" -> "ntriples"
            [] ct \in {"application/trig", "text/trig"} -> "trig"
            [] OTHER ->
               IF ct = "application/rdf+xml" \/ ext \in {"rdf", "owl", "xml"} THEN NULL
               ELSE IF ct = "application/ld+json" \/ ext \in {"jsonld", "json"} THEN NULL
               ELSE "turtle"
     : ct \in {contentTypeBase(contentType)}, ext \in {urlExt(sourceUrl)} })

n3FormatFor(contentType, sourceUrl) ==
  Only({
     CASE ct \in {"text/turtle", "application/x-turtle"} -> "turtle"
       [] ct \in {"text/n3", "text/rdf+n3"} -> "n3"
       [] ct = "application/n-triples" -> "ntriples"
       [] ct \in {"application/trig", "text/trig"} -> "trig"
       [] OTHER ->
          CASE ext = "ttl" -> "turtle"
            [] ext = "n3" -> "n3"
            [] ext = "nt" -> "ntriples"
            [] ext = "trig" -> "trig"
            [] OTHER ->
               IF ct = "application/rdf+xml" \/ ext \in {"rdf", "owl", "xml"} THEN NULL
               ELSE IF ct = "application/ld+json" \/ ext \in {"jsonld", "json"} THEN NULL
               ELSE "turtle"
     : ct \in {contentTypeBase(contentType)}, ext \in {urlExt(sourceUrl)} })

\* Document bodies the file server can return, and the graph N3.Parser reads from
\* the well-formed ones.
TextA == "@prefix ex: <#> . ex:Thing a owl:Class ; rdfs:label \"Thing\" ; ex:note \"n\" . ex:Other rdfs:label \"Other\" ."
TextB == "@prefix ex: <#> . ex:Thing a owl:Class ; rdfs:label \"Thing v2\" . ex:knows a owl:ObjectProperty ; ex:note \"n\" ."
TextOne == "@prefix ex: <#> . ex:Thing a owl:Class ; rdfs:label \"Thing\" ."
TextXml == "<rdf:RDF/>"
TextJunk == "<html>Not a vocabulary</html>"

GraphA ==
  { Quad(NamedNode(exThing), NamedNode(rdfType), NamedNode(owlClass)),
    Quad(NamedNode(exThing), NamedNode(rdfsLabel), Literal("Thing")),
    Quad(NamedNode(exThing), NamedNode(exNote), Literal("n")),
    Quad(NamedNode(exOther), NamedNode(rdfsLabel), Literal("Other")) }

GraphB ==
  { Quad(NamedNode(exThing), NamedNode(rdfType), NamedNode(owlClass)),
    Quad(NamedNode(exThing), NamedNode(rdfsLabel), Literal("Thing v2")),
    Quad(NamedNode(exKnows), NamedNode(rdfType), NamedNode(owlObjectProperty)),
    Quad(NamedNode(exKnows), NamedNode(exNote), Literal("n")) }

\* One class with one label.
GraphOne ==
  { Quad(NamedNode(exThing), NamedNode(rdfType), NamedNode(owlClass)),
    Quad(NamedNode(exThing), NamedNode(rdfsLabel), Literal("Thing")) }

\* parser.parse(inputText) throws on anything but the Turtle documents.
ParseThrows(inputText, format) == inputText \notin {TextA, TextB, TextOne}

ParsedGraph(inputText) ==
  CASE inputText = TextA -> GraphA
    [] inputText = TextB -> GraphB
    [] inputText = TextOne -> GraphOne

\* N3.Writer's Turtle for a store: a Turtle document holding the store's quads.
WriteTurtle(quads) == [format |-> "Turtle", quads |-> quads]
NoTurtle == WriteTurtle({})

ParseResult(ok, store, ttl, reason) == [ok |-> ok, store |-> store, ttl |-> ttl, reason |-> reason]

parseAndSerializeToTurtle(inputText, inputContentType, sourceUrl) ==
  LET format == n3FormatFor(inputContentType, sourceUrl)
  IN IF format = NULL
       THEN ParseResult(FALSE, {}, NoTurtle, "Unsupported format")
     ELSE IF ParseThrows(inputText, format)
       THEN ParseResult(FALSE, {}, NoTurtle, "Parse failed")
     ELSE ParseResult(TRUE, ParsedGraph(inputText), WriteTurtle(ParsedGraph(inputText)), NULL)

\* ------------------------------------------------------------------ what the registry and the file server hold
\* Per vocabulary: the registry's info response and the file server's answer to a
\* request for that vocabulary's file.
Scenario(info, http) == [info |-> info, http |-> http]

ScenInfoFails == Scenario(InfoErr, HttpThrows)
ScenNoUsable ==
  Scenario(Info(<<Version(NULL, Issued2023), Version(FileTtl, IssuedJunk)>>), HttpThrows)
ScenA == Scenario(Info(<<Version(FileTtl, Issued2023)>>), Http(200, CtTurtle, TextA))
ScenAReissued ==
  Scenario(Info(<<Version(FileTtl, Issued2023), Version(FileTtl, Issued2024)>>),
           Http(200, CtTurtle, TextA))
ScenB ==
  Scenario(Info(<<Version(FileNew, Issued2024), Version(FileTtl, Issued2023)>>),
           Http(200, NoHeader, TextB))
Scen404 == Scenario(Info(<<Version(FileTtl, Issued2023)>>), Http(404, CtHtml, TextJunk))
Scen422 == Scenario(Info(<<Version(FileTtl, Issued2023)>>), Http(422, CtHtml, TextJunk))
ScenNetwork == Scenario(Info(<<Version(FileTtl, Issued2023)>>), HttpThrows)
ScenUnsupported == Scenario(Info(<<Version(FileRdf, Issued2023)>>), Http(200, CtRdfXml, TextXml))
ScenMalformed == Scenario(Info(<<Version(FileTtl, Issued2023)>>), Http(200, CtTurtle, TextJunk))

\* The registry, or the file server, never answers.
ScenInfoHangs == Scenario(InfoHangs, HttpThrows)
ScenFileHangs == Scenario(Info(<<Version(FileTtl, Issued2023)>>), HttpHangs)

\* A single version, a Turtle file with one owl:Class that has one rdfs:label.
ScenOneClass == Scenario(Info(<<Version(FileTtl, Issued2023)>>), Http(200, CtTurtle, TextOne))

Scenarios ==
  [ ex |-> { ScenInfoFails, ScenNoUsable, ScenA, ScenAReissued, ScenB, Scen404, Scen422,
             ScenNetwork, ScenUnsupported, ScenMalformed },
    ex2 |-> { ScenInfoFails, ScenA, ScenB } ]

Upstreams == [ex : Scenarios.ex, ex2 : Scenarios.ex2]

\* The states of the registry and file server that differ for a listing's
\* vocabularies: a prefix the listing lacks is never asked for.
UpstreamsFor(list) ==
  { u \in Upstreams :
      \A p \in DOMAIN u :
        (\A k \in 1..Len(fetchLovList(list)) : fetchLovList(list)[k].prefix # p) =>
          u[p] = ScenInfoFails }

\* ------------------------------------------------------------------ paths (path.join as a tuple of segments)
PrefixDir(v) == <<"by-prefix", encPrefixSegment(v.prefix)>>
UriDir(v) == <<"by-uri", encUriSegment(v.uri)>>
MetaPath(dir) == Append(dir, "meta.json")
OntPath(dir) == Append(dir, OUT_FILENAME)
PagePath(dir) == Append(dir, "index.html")
TinyPath(kind, termIri) == <<kind, encUriSegment(termIri), ".ttl">>
SummaryPath == <<"index.json">>

\* ------------------------------------------------------------------ records of index.ts
NoFetch == FetchResult(FALSE, 0, NoHeader, NULL, NULL, NULL)
NoConv == ParseResult(FALSE, {}, NoTurtle, NULL)

Meta(v, latest, fr, convertOk, convertReason) ==
  [ prefix |-> v.prefix, uri |-> v.uri, namespace |-> v.namespace,
    lovLatestFileURL |-> latest.fileURL, lovLatestIssued |-> latest.issued,
    fetchedFrom |-> latest.fileURL, ok |-> fr.ok, status |-> fr.status,
    contentType |-> fr.contentType, finalUrl |-> fr.finalUrl,
    convert |-> [ok |-> convertOk, reason |-> convertReason], error |-> fr.error ]

\* detailed is FALSE where the code leaves classCount, propertyCount, classLinks and
\* propLinks undefined.
ResultItem(v, latest, ok, status, finalUrl, fileByPrefix, fileByUri, skipped, note, detailed, classLinks, propLinks) ==
  [ prefix |-> v.prefix, uri |-> v.uri, namespace |-> v.namespace,
    lovLatestFileURL |-> latest.fileURL, lovLatestIssued |-> latest.issued,
    ok |-> ok, status |-> status, finalUrl |-> finalUrl,
    fileByPrefix |-> fileByPrefix, fileByUri |-> fileByUri, skipped |-> skipped,
    note |-> note, detailed |-> detailed,
    classCount |-> Len(classLinks), propertyCount |-> Len(propLinks),
    classLinks |-> classLinks, propLinks |-> propLinks ]

NoVocab == [prefix |-> NULL, uri |-> NULL, namespace |-> NULL]
NoResult == ResultItem(NoVocab, NoLatest, FALSE, 0, NULL, <<>>, <<>>, FALSE, NULL, FALSE, <<>>, <<>>)

TermInfo(iri, href, summary) ==
  [iri |-> iri, href |-> href, label |-> summary.label, description |-> summary.description]

\* processOne, line 85: the record returned when no version was resolved.
\* (UnresolvedResultWithoutNote: a variant that gives no reason.)
UnresolvedResultWithoutNote(v) ==
  ResultItem(v, NoLatest, FALSE, 0, NULL, <<>>, <<>>, FALSE, NULL, FALSE, <<>>, <<>>)

\* (UnresolvedResultSkipped: a variant that flags the record skipped.)
UnresolvedResultSkipped(v) ==
  ResultItem(v, NoLatest, FALSE, 0, NULL, <<>>, <<>>, TRUE,
             "Could not fetch LOV info or no versions/fileURL", FALSE, <<>>, <<>>)

UnresolvedResult(v) ==
  ResultItem(v, NoLatest, FALSE, 0, NULL, <<>>, <<>>, FALSE,
             "Could not fetch LOV info or no versions/fileURL", FALSE, <<>>, <<>>)

\* processOne, line 112: the record returned on a cache hit.
\* (CacheHitResultAsFetched: a variant that reports the hit like a download.)
CacheHitResultAsFetched(v, latest, existingFinalUrl) ==
  ResultItem(v, latest, TRUE, 200, existingFinalUrl,
             <<"by-prefix", encodeURIComponent(v.prefix), OUT_FILENAME>>,
             <<"by-uri", encUriSegment(v.uri), OUT_FILENAME>>,
             FALSE, NULL, FALSE, <<>>, <<>>)

CacheHitResult(v, latest, existingFinalUrl) ==
  ResultItem(v, latest, TRUE, 304, existingFinalUrl,
             <<"by-prefix", encodeURIComponent(v.prefix), OUT_FILENAME>>,
             <<"by-uri", encUriSegment(v.uri), OUT_FILENAME>>,
             TRUE, NULL, FALSE, <<>>, <<>>)

\* processOne, line 226: the status of the record returned after a download.
ResultStatusHidesHttpStatus(fr, convertOk) ==
  IF fr.ok /\ convertOk THEN fr.status ELSE 422

ResultStatus(fr, convertOk) ==
  IF fr.ok THEN (IF convertOk THEN fr.status ELSE 422) ELSE fr.status

\* processOne, line 219: the record returned after a download.
\* (FetchedResultOkByDownload: a variant whose ok is that of the download alone.)
FetchedResultOkByDownload(v, latest, fr, convertOk, convertReason, fileByPrefix, fileByUri, classLinks, propLinks) ==
  ResultItem(v, latest, fr.ok, ResultStatus(fr, convertOk), fr.finalUrl,
             fileByPrefix, fileByUri, FALSE,
             IF convertReason # NULL THEN convertReason ELSE fr.error,
             TRUE, classLinks, propLinks)

FetchedResult(v, latest, fr, convertOk, convertReason, fileByPrefix, fileByUri, classLinks, propLinks) ==
  ResultItem(v, latest, fr.ok /\ convertOk, ResultStatus(fr, convertOk), fr.finalUrl,
             fileByPrefix, fileByUri, FALSE,
             IF convertReason # NULL THEN convertReason ELSE fr.error,
             TRUE, classLinks, propLinks)

\* processOne, line 106.
isUpToDateIgnoringIssued(hasFile, existingMeta, latest) ==
  /\ hasFile
  /\ Len(existingMeta) = 1
  /\ existingMeta[1].lovLatestFileURL = latest.fileURL
  /\ existingMeta[1].convert.ok = TRUE

isUpToDateNever(hasFile, existingMeta, latest) == FALSE

isUpToDate(hasFile, existingMeta, latest) ==
  /\ hasFile
  /\ Len(existingMeta) = 1
  /\ existingMeta[1].lovLatestFileURL = latest.fileURL
  /\ existingMeta[1].lovLatestIssued = latest.issued
  /\ existingMeta[1].convert.ok = TRUE

\* ------------------------------------------------------------------ state
VARIABLES
  run,          \* number of the current run of the program, from 1
  lastRun,      \* number of the last run
  phase,        \* where run() is: "start", "working", "grouping", "done", "aborted"
  pool,         \* CONCURRENCY of the current run
  listing,      \* what the registry's list call returns
  listOk,       \* whether the registry's list call succeeds in the current run
  upstream,     \* per prefix, the Scenario the registry and file server are in
  next,         \* run(): let next
  results,      \* run(): const results
  allClasses,   \* run(): const allClasses, iri -> TermInfo
  allProperties,\* run(): const allProperties, iri -> TermInfo
  task,         \* per worker, the locals and position of its processOne call
  ont,          \* ontology.ttl files: path -> Turtle
  meta,         \* meta.json files: path -> Meta
  tiny,         \* tiny term files: path -> Turtle
  pages,        \* per-vocabulary index.html files: path -> what the page lists
  summary,      \* the global index.json: <<>> or <<its content>>
  nsSummaries,  \* namespaces/<ns>/index.json files: path -> content
  writes,       \* history: the file writes of the current run, [by, path]
  requests,     \* history: per vocabulary index, the network calls of the current run
  hist,         \* history: what earlier runs did
  call          \* a single call of one of the pure functions: its input and result

vars ==
  << run, lastRun, phase, pool, listing, listOk, upstream, next, results, allClasses, allProperties,
     task, ont, meta, tiny, pages, summary, nsSummaries, writes, requests, hist, call >>

Workers == 1..MaxWorkers

\* writeFile: the file at path p now holds c.
Write(files, p, c) == [q \in (DOMAIN files) \cup {p} |-> IF q = p THEN c ELSE files[q]]

NoFiles == <<>>

\* The vocabularies of the run: what fetchLovList returns.
vocabs == fetchLovList(listing)

\* In the write history, run() itself writes as the index past the last task.
Aggregator == Len(vocabs)

Wrote(by, path) == [by |-> by, path |-> path]

\* The locals of one processOne call.  i is the claimed index (from 0).
IdleTask ==
  [ pc |-> "none", i |-> 0, latest |-> NoLatest, fr |-> NoFetch, conv |-> NoConv,
    convertOk |-> FALSE, convertReason |-> NULL, fileByPrefix |-> <<>>, fileByUri |-> <<>>,
    todo |-> <<>>, classLinks |-> <<>>, propLinks |-> <<>>, ret |-> NoResult ]

\* worker(): const i = next++; if (i >= vocabs.length) return; ... processOne(v)
\* up to its first await.
ClaimTwice(n) == IF n = 0 THEN 0 ELSE n - 1

Claim(n) == n

\* (BeginWithoutReturn: a variant whose worker does not return past the end of the list.)
BeginWithoutReturn(n) ==
  IF Claim(n) >= Len(vocabs) THEN [IdleTask EXCEPT !.i = Claim(n)]
  ELSE [IdleTask EXCEPT !.pc = "resolve", !.i = Claim(n)]

Begin(n) ==
  IF Claim(n) >= Len(vocabs) THEN [IdleTask EXCEPT !.pc = "exit", !.i = Claim(n)]
  ELSE [IdleTask EXCEPT !.pc = "resolve", !.i = Claim(n)]

Vocab(w) == vocabs[task[w].i + 1]

\* No network call has been made for any vocabulary of the run.
NoRequests == [i \in 0..(Len(vocabs) - 1) |-> [info |-> 0, file |-> 0]]

\* No function is called on its own.
NoCall == [fn |-> "none", input |-> <<>>, called |-> FALSE, output |-> <<>>]

FirstHist ==
  [ lastPersist |-> [p \in {"ex", "ex2"} |-> NoLatest],
    lastOk |-> [p \in {"ex", "ex2"} |-> "none"],
    prevUpstream |-> <<>>,
    prevItems |-> <<>>,
    ontAtStart |-> NoFiles,
    metaAtStart |-> NoFiles ]

InitRun(lists, runs) ==
  /\ run = 1
  /\ lastRun = runs
  /\ phase = "start"
  /\ pool \in 1..MaxWorkers
  /\ listing \in lists
  /\ listOk \in BOOLEAN
  /\ upstream \in UpstreamsFor(listing)
  /\ next = 0
  /\ results = <<>>
  /\ allClasses = NoFiles
  /\ allProperties = NoFiles
  /\ task = [w \in Workers |-> IdleTask]
  /\ ont = NoFiles
  /\ meta = NoFiles
  /\ tiny = NoFiles
  /\ pages = NoFiles
  /\ summary = <<>>
  /\ nsSummaries = NoFiles
  /\ writes = {}
  /\ requests = NoRequests
  /\ hist = FirstHist
  /\ call = NoCall

\* Up to MaxRuns runs over each listing.
Init == InitRun(Listings, MaxRuns)

\* One more run, over a single vocabulary.
InitRuns == InitRun({SingleListing}, MaxRuns + 1)

\* A first run in which the file of vocabulary ex holds one class with one label.
InitOneClass ==
  /\ run = 1
  /\ lastRun = 1
  /\ phase = "start"
  /\ pool \in 1..MaxWorkers
  /\ listing \in Listings
  /\ listOk \in BOOLEAN
  /\ upstream \in { u \in { [ex |-> ScenOneClass, ex2 |-> sc] : sc \in Scenarios.ex2 } :
                      (\A k \in 1..Len(fetchLovList(listing)) : fetchLovList(listing)[k].prefix # "ex2")
                        => u.ex2 = ScenInfoFails }
  /\ next = 0
  /\ results = <<>>
  /\ allClasses = NoFiles
  /\ allProperties = NoFiles
  /\ task = [w \in Workers |-> IdleTask]
  /\ ont = NoFiles
  /\ meta = NoFiles
  /\ tiny = NoFiles
  /\ pages = NoFiles
  /\ summary = <<>>
  /\ nsSummaries = NoFiles
  /\ writes = {}
  /\ requests = NoRequests
  /\ hist = FirstHist
  /\ call = NoCall

fsVars == <<ont, meta, tiny, pages, summary, nsSummaries>>
envVars == <<run, lastRun, pool, listing, listOk, upstream, hist, call>>
aggVars == <<results, allClasses, allProperties>>

\* run(), line 250: the list call fails and run() rejects; main().catch exits.
ListingFails ==
  /\ phase = "start"
  /\ ~listOk
  /\ phase' = "aborted"
  /\ UNCHANGED <<envVars, aggVars, fsVars, next, task, writes, requests>>

\* run(), line 284: Array.from({length: CONCURRENCY}, (_, w) => worker(w)) calls the
\* workers one after the other; each runs to its first await, so worker w claims
\* index w - 1.
\* (StartAllWorkers: a variant that starts MaxWorkers workers whatever CONCURRENCY is.)
StartAllWorkers ==
  /\ phase = "start"
  /\ listOk
  /\ phase' = "working"
  /\ task' = [w \in Workers |-> Begin(w - 1)]
  /\ next' = MaxWorkers
  /\ UNCHANGED <<envVars, aggVars, fsVars, writes, requests>>

StartWorkers ==
  /\ phase = "start"
  /\ listOk
  /\ phase' = "working"
  /\ task' = [w \in Workers |-> IF w <= pool THEN Begin(w - 1) ELSE IdleTask]
  /\ next' = pool
  /\ UNCHANGED <<envVars, aggVars, fsVars, writes, requests>>

\* processOne, line 77: the registry info call returns or throws.
\* A variant without the try/catch: a failed info call rejects the worker and run().
ResolveRethrows(w) ==
  /\ phase = "working"
  /\ task[w].pc = "resolve"
  /\ ~Hangs(upstream[Vocab(w).prefix].info)
  /\ LET v == Vocab(w)
         info == upstream[v.prefix].info
         latest == IF info.ok THEN extractLatestVersion(info.versions) ELSE NoLatest
     IN /\ task' = [task EXCEPT ![w] =
             IF latest = NoLatest
               THEN [@ EXCEPT !.pc = "return", !.ret = UnresolvedResult(v)]
               ELSE [@ EXCEPT !.pc = "cache", !.latest = latest]]
        /\ phase' = IF info.ok THEN phase ELSE "aborted"
  /\ requests' = [requests EXCEPT ![task[w].i].info = @ + 1]
  /\ UNCHANGED <<envVars, aggVars, fsVars, next, writes>>

Resolve(w) ==
  /\ phase = "working"
  /\ task[w].pc = "resolve"
  /\ ~Hangs(upstream[Vocab(w).prefix].info)
  /\ LET v == Vocab(w)
         info == upstream[v.prefix].info
         latest == IF info.ok THEN extractLatestVersion(info.versions) ELSE NoLatest
     IN task' = [task EXCEPT ![w] =
          IF latest = NoLatest
            THEN [@ EXCEPT !.pc = "return", !.ret = UnresolvedResult(v)]
            ELSE [@ EXCEPT !.pc = "cache", !.latest = latest]]
  /\ requests' = [requests EXCEPT ![task[w].i].info = @ + 1]
  /\ UNCHANGED <<envVars, aggVars, fsVars, phase, next, writes>>

\* processOne, line 102: the cache check.
CacheCheck(w) ==
  /\ phase = "working"
  /\ task[w].pc = "cache"
  /\ LET v == Vocab(w)
         prefixMetaPath == MetaPath(PrefixDir(v))
         prefixOntPath == OntPath(PrefixDir(v))
         existingMeta == IF prefixMetaPath \in DOMAIN meta THEN <<meta[prefixMetaPath]>> ELSE <<>>
         hasFile == prefixOntPath \in DOMAIN ont
     IN task' = [task EXCEPT ![w] =
          IF isUpToDate(hasFile, existingMeta, task[w].latest)
            THEN [@ EXCEPT !.pc = "return",
                           !.ret = CacheHitResult(v, task[w].latest, existingMeta[1].finalUrl)]
            ELSE [@ EXCEPT !.pc = "fetch"]]
  /\ UNCHANGED <<envVars, aggVars, fsVars, phase, next, writes, requests>>

\* processOne, line 142: if (fr.ok && fr.text != null) the text is converted, else the
\* task goes on to write the meta records.
\* (AfterFetchConvertsAnyway: a variant without the test.  AfterFetchRetries: a variant
\* that downloads again after a failure.)
AfterFetchConvertsAnyway(fr) == "convert"

AfterFetchRetries(fr) == IF fr.ok /\ fr.text # NULL THEN "convert" ELSE "fetch"

AfterFetch(fr) == IF fr.ok /\ fr.text # NULL THEN "convert" ELSE "metaPrefix"

\* processOne, line 131: the download returns.
Fetch(w) ==
  /\ phase = "working"
  /\ task[w].pc = "fetch"
  /\ ~Hangs(upstream[Vocab(w).prefix].http)
  /\ LET fr == fetchText(task[w].latest.fileURL, upstream[Vocab(w).prefix].http)
     IN task' = [task EXCEPT ![w] =
          [@ EXCEPT !.fr = fr,
                    !.pc = AfterFetch(fr)]]
  /\ requests' = [requests EXCEPT ![task[w].i].file = @ + 1]
  /\ UNCHANGED <<envVars, aggVars, fsVars, phase, next, writes>>

\* processOne, line 150: if (conv.ok) the files are written, else only the reason is kept.
AfterConvertWritesAnyway(conv) == "writeOntPrefix"

\* (AfterConvertOnlyMeta: a variant that goes on to the metadata records at once.)
AfterConvertOnlyMeta(conv) == "metaPrefix"

AfterConvert(conv) == IF conv.ok THEN "writeOntPrefix" ELSE "metaPrefix"

\* processOne, line 143: the conversion returns.
Convert(w) ==
  /\ phase = "working"
  /\ task[w].pc = "convert"
  /\ LET conv == parseAndSerializeToTurtle(task[w].fr.text, task[w].fr.contentType,
                                           task[w].latest.fileURL)
     IN task' = [task EXCEPT ![w] =
          IF conv.ok
            THEN [@ EXCEPT !.conv = conv, !.convertOk = TRUE, !.pc = AfterConvert(conv)]
            ELSE [@ EXCEPT !.convertOk = FALSE, !.convertReason = conv.reason,
                           !.pc = AfterConvert(conv)]]
  /\ UNCHANGED <<envVars, aggVars, fsVars, phase, next, writes, requests>>

\* processOne, line 154.
WriteOntPrefix(w) ==
  /\ phase = "working"
  /\ task[w].pc = "writeOntPrefix"
  /\ ont' = Write(ont, OntPath(PrefixDir(Vocab(w))), task[w].conv.ttl)
  /\ writes' = writes \cup {Wrote(task[w].i, OntPath(PrefixDir(Vocab(w))))}
  /\ task' = [task EXCEPT ![w].pc = "writeOntUri"]
  /\ UNCHANGED <<envVars, aggVars, meta, tiny, pages, summary, nsSummaries, phase, next, requests>>

\* The terms writeTinyTermFile is still to be called for, classes first.
TermQueue(store) ==
  LET found == findClassesAndProperties(store)
  IN [k \in 1..Len(found.classes) |-> <<"classes", found.classes[k]>>]
     \o [k \in 1..Len(found.properties) |-> <<"properties", found.properties[k]>>]

\* processOne, lines 155-161.
WriteOntUri(w) ==
  /\ phase = "working"
  /\ task[w].pc = "writeOntUri"
  /\ ont' = Write(ont, OntPath(UriDir(Vocab(w))), task[w].conv.ttl)
  /\ writes' = writes \cup {Wrote(task[w].i, OntPath(UriDir(Vocab(w))))}
  /\ LET todo == TermQueue(task[w].conv.store)
     IN task' = [task EXCEPT ![w] =
          [@ EXCEPT !.fileByPrefix = <<"by-prefix", encodeURIComponent(Vocab(w).prefix), OUT_FILENAME>>,
                    !.fileByUri = <<"by-uri", encUriSegment(Vocab(w).uri), OUT_FILENAME>>,
                    !.todo = todo,
                    !.pc = IF todo = <<>> THEN "indexHtml" ELSE "tinyCheck"]]
  /\ UNCHANGED <<envVars, aggVars, meta, tiny, pages, summary, nsSummaries, phase, next, requests>>

\* processOne, lines 170-172 and 181-183: the link of a term is recorded.
PushLink(t, kind, iri) ==
  LET info == TermInfo(iri, TinyPath(kind, iri), extractTermSummary(t.conv.store, iri))
      rest == Tail(t.todo)
      linked == IF kind = "classes"
                  THEN [t EXCEPT !.classLinks = Append(@, info)]
                  ELSE [t EXCEPT !.propLinks = Append(@, info)]
  IN [linked EXCEPT !.todo = rest, !.pc = IF rest = <<>> THEN "indexHtml" ELSE "tinyCheck"]

SkipLink(t) ==
  [t EXCEPT !.todo = Tail(t.todo),
            !.pc = IF Tail(t.todo) = <<>> THEN "indexHtml" ELSE "tinyCheck"]

\* writeTinyTermFile, lines 140-159: up to the answer of fileExists.
TinyCheck(w) ==
  /\ phase = "working"
  /\ task[w].pc = "tinyCheck"
  /\ LET kind == task[w].todo[1][1]
         iri == task[w].todo[1][2]
     IN task' = [task EXCEPT ![w] =
          IF TinyPath(kind, iri) \in DOMAIN tiny THEN PushLink(@, kind, iri)
          ELSE IF TinyQuads(@.conv.store, iri) = {} THEN SkipLink(@)
          ELSE [@ EXCEPT !.pc = "tinyWrite"]]
  /\ UNCHANGED <<envVars, aggVars, fsVars, phase, next, writes, requests>>

\* writeTinyTermFile, lines 161-169.
TinyWrite(w) ==
  /\ phase = "working"
  /\ task[w].pc = "tinyWrite"
  /\ LET kind == task[w].todo[1][1]
         iri == task[w].todo[1][2]
     IN /\ tiny' = Write(tiny, TinyPath(kind, iri), WriteTurtle(TinyQuads(task[w].conv.store, iri)))
        /\ writes' = writes \cup {Wrote(task[w].i, TinyPath(kind, iri))}
        /\ task' = [task EXCEPT ![w] = PushLink(@, kind, iri)]
  /\ UNCHANGED <<envVars, aggVars, ont, meta, pages, summary, nsSummaries, phase, next, requests>>

\* processOne, line 187: writePerOntologyIndexHtml.
IndexHtml(w) ==
  /\ phase = "working"
  /\ task[w].pc = "indexHtml"
  /\ pages' = Write(pages, PagePath(PrefixDir(Vocab(w))),
                    [ prefix |-> Vocab(w).prefix, classLinks |-> task[w].classLinks,
                      propLinks |-> task[w].propLinks ])
  /\ writes' = writes \cup {Wrote(task[w].i, PagePath(PrefixDir(Vocab(w))))}
  /\ task' = [task EXCEPT ![w].pc = "metaPrefix"]
  /\ UNCHANGED <<envVars, aggVars, ont, meta, tiny, summary, nsSummaries, phase, next, requests>>

TaskMeta(w) ==
  Meta(Vocab(w), task[w].latest, task[w].fr, task[w].convertOk, task[w].convertReason)

\* processOne, line 216.
MetaPrefix(w) ==
  /\ phase = "working"
  /\ task[w].pc = "metaPrefix"
  /\ meta' = Write(meta, MetaPath(PrefixDir(Vocab(w))), TaskMeta(w))
  /\ writes' = writes \cup {Wrote(task[w].i, MetaPath(PrefixDir(Vocab(w))))}
  /\ task' = [task EXCEPT ![w].pc = "metaUri"]
  /\ UNCHANGED <<envVars, aggVars, ont, tiny, pages, summary, nsSummaries, phase, next, requests>>

\* processOne, lines 217-236.
MetaUri(w) ==
  /\ phase = "working"
  /\ task[w].pc = "metaUri"
  /\ meta' = Write(meta, MetaPath(UriDir(Vocab(w))), TaskMeta(w))
  /\ writes' = writes \cup {Wrote(task[w].i, MetaPath(UriDir(Vocab(w))))}
  /\ task' = [task EXCEPT ![w] =
       [@ EXCEPT !.pc = "return",
                 !.ret = FetchedResult(Vocab(w), task[w].latest, task[w].fr, task[w].convertOk,
                                       task[w].convertReason, task[w].fileByPrefix,
                                       task[w].fileByUri, task[w].classLinks, task[w].propLinks)]]
  /\ UNCHANGED <<envVars, aggVars, ont, tiny, pages, summary, nsSummaries, phase, next, requests>>

\* worker(), lines 267-277: first sighting of a term wins.
RECURSIVE MergeTerms(_, _)
MergeTerms(all, links) ==
  IF links = <<>> THEN all
  ELSE MergeTerms(IF Head(links).iri \in DOMAIN all THEN all
                  ELSE Write(all, Head(links).iri, Head(links)),
                  Tail(links))

\* worker(), line 265.
PushOnlyOk(rs, r) == IF r.ok THEN Append(rs, r) ELSE rs

Push(rs, r) == Append(rs, r)

\* worker(), lines 264-281 and 259-263: processOne has returned; the result is
\* recorded and the worker claims the next index, all without an await.
Finish(w) ==
  /\ phase = "working"
  /\ task[w].pc = "return"
  /\ results' = Push(results, task[w].ret)
  /\ allClasses' = MergeTerms(allClasses, task[w].ret.classLinks)
  /\ allProperties' = MergeTerms(allProperties, task[w].ret.propLinks)
  /\ task' = [task EXCEPT ![w] = Begin(next)]
  /\ next' = next + 1
  /\ UNCHANGED <<envVars, fsVars, phase, writes, requests>>

\* results.sort((a, b) => a.prefix.localeCompare(b.prefix)), a stable sort.
\* (Unsorted: a variant that leaves the order of completion.)
Unsorted(rs) == rs

RECURSIVE SortByPrefix(_)
SortByPrefix(rs) ==
  IF rs = <<>> THEN <<>>
  ELSE LET k == CHOOSE j \in 1..Len(rs) :
                  /\ \A m \in 1..Len(rs) : PrefixRank(rs[j].prefix) <= PrefixRank(rs[m].prefix)
                  /\ \A m \in 1..(j - 1) : PrefixRank(rs[j].prefix) < PrefixRank(rs[m].prefix)
       IN <<rs[k]>> \o SortByPrefix(SubSeq(rs, 1, k - 1) \o SubSeq(rs, k + 1, Len(rs)))

Count(rs, Test(_)) == Len(SelectSeq(rs, Test))

\* (AggregateAfterFirstWorker: a variant that goes on when one worker has returned, as
\* with Promise.race.)
AggregateAfterFirstWorker ==
  /\ phase = "working"
  /\ \E w \in 1..pool : task[w].pc = "exit"
  /\ results' = SortByPrefix(results)
  /\ summary' = << [ count |-> Len(results'),
                     okCount |-> Count(results', LAMBDA r : r.ok),
                     skippedCount |-> Count(results', LAMBDA r : r.skipped),
                     items |-> results' ] >>
  /\ writes' = writes \cup {Wrote(Aggregator, SummaryPath)}
  /\ phase' = "grouping"
  /\ UNCHANGED <<envVars, allClasses, allProperties, ont, meta, tiny, pages, nsSummaries,
                 next, task, requests>>

\* run(), lines 284-295: every worker has returned; the global index.json.
Aggregate ==
  /\ phase = "working"
  /\ \A w \in 1..pool : task[w].pc = "exit"
  /\ results' = SortByPrefix(results)
  /\ summary' = << [ count |-> Len(results'),
                     okCount |-> Count(results', LAMBDA r : r.ok),
                     skippedCount |-> Count(results', LAMBDA r : r.skipped),
                     items |-> results' ] >>
  /\ writes' = writes \cup {Wrote(Aggregator, SummaryPath)}
  /\ phase' = "grouping"
  /\ UNCHANGED <<envVars, allClasses, allProperties, ont, meta, tiny, pages, nsSummaries,
                 next, task, requests>>

NsPath(ns) == <<"namespaces", encUriSegment(ns), "index.json">>

\* run(), lines 298-304: nsMap.get(ns), the results pushed under a namespace.
\* (nsGroupOfAll: a variant that pushes every result with a namespace under each key.)
nsGroupOfAll(rs, ns) == SelectSeq(rs, LAMBDA r : r.namespace # NULL)

nsGroup(rs, ns) == SelectSeq(rs, LAMBDA r : r.namespace = ns)

\* run(), lines 297-314: one index.json per namespace.
GroupNamespaces ==
  /\ phase = "grouping"
  /\ LET named == { results[k].namespace : k \in { j \in 1..Len(results) : results[j].namespace # NULL } }
         group(ns) == nsGroup(results, ns)
     IN /\ nsSummaries' =
             [ p \in (DOMAIN nsSummaries) \cup { NsPath(ns) : ns \in named } |->
                 IF \E ns \in named : p = NsPath(ns)
                   THEN LET ns == CHOOSE n \in named : p = NsPath(n)
                        IN [namespace |-> ns, count |-> Len(group(ns)), items |-> group(ns)]
                   ELSE nsSummaries[p] ]
        /\ writes' = writes \cup { Wrote(Aggregator, NsPath(ns)) : ns \in named }
  /\ phase' = "done"
  /\ UNCHANGED <<envVars, aggVars, ont, meta, tiny, pages, summary, next, task, requests>>

\* A record of the summary says the vocabulary was converted and written in this run.
Persisted(r) == r.ok /\ ~r.skipped

\* What the finished run leaves for the history.
NextHist ==
  IF phase = "done"
    THEN [ lastPersist |->
             [ p \in DOMAIN hist.lastPersist |->
                 IF \E k \in 1..Len(results) : results[k].prefix = p /\ Persisted(results[k])
                   THEN LET r == results[CHOOSE k \in 1..Len(results) : results[k].prefix = p]
                        IN Version(r.lovLatestFileURL, r.lovLatestIssued)
                   ELSE hist.lastPersist[p] ],
           lastOk |->
             [ p \in DOMAIN hist.lastOk |->
                 IF \E k \in 1..Len(results) : results[k].prefix = p
                   THEN IF results[CHOOSE k \in 1..Len(results) : results[k].prefix = p].ok
                          THEN "ok" ELSE "failed"
                   ELSE hist.lastOk[p] ],
           prevUpstream |-> <<upstream>>,
           prevItems |-> results,
           ontAtStart |-> ont,
           metaAtStart |-> meta ]
    ELSE [hist EXCEPT !.prevUpstream = <<>>, !.prevItems = <<>>, !.ontAtStart = ont,
                      !.metaAtStart = meta]

\* The program is started again on the same output directory; the registry and the
\* file server may have changed in the meantime.
NextRun ==
  /\ phase \in {"done", "aborted"}
  /\ run < lastRun
  /\ run' = run + 1
  /\ phase' = "start"
  /\ listOk' \in BOOLEAN
  /\ upstream' \in UpstreamsFor(listing)
  /\ hist' = NextHist
  /\ next' = 0
  /\ results' = <<>>
  /\ allClasses' = NoFiles
  /\ allProperties' = NoFiles
  /\ task' = [w \in Workers |-> IdleTask]
  /\ writes' = {}
  /\ requests' = NoRequests
  /\ UNCHANGED <<lastRun, pool, listing, fsVars, call>>

Step(w) ==
  \/ Resolve(w)
  \/ CacheCheck(w)
  \/ Fetch(w)
  \/ Convert(w)
  \/ WriteOntPrefix(w)
  \/ WriteOntUri(w)
  \/ TinyCheck(w)
  \/ TinyWrite(w)
  \/ IndexHtml(w)
  \/ MetaPrefix(w)
  \/ MetaUri(w)
  \/ Finish(w)

\* One run of the program.
NextOnce ==
  \/ ListingFails
  \/ StartWorkers
  \/ \E w \in Workers : Step(w)
  \/ Aggregate
  \/ GroupNamespaces

Next ==
  \/ NextOnce
  \/ NextRun

\* Runs of the program over each listing, one after the other.
Spec == Init /\ [][Next]_vars

\* Longer sequences of runs over a single vocabulary.
SpecRuns == InitRuns /\ [][Next]_vars

\* A single run on an empty output directory.
SpecOnce == Init /\ [][NextOnce]_vars

\* A single run on an empty output directory, with the one-class file for ex.
SpecOneClass == InitOneClass /\ [][NextOnce]_vars

\* A single run on an empty output directory, over the listings with namespaces.
InitNamespaces == InitRun(NamespaceListings, 1)

SpecNamespaces == InitNamespaces /\ [][NextOnce]_vars

\* What the registry and the file servers hold for three vocabularies when at most one
\* call, an info call or a download, never returns.
HangUpstreams ==
  { u \in [ex : {ScenOneClass, ScenInfoHangs, ScenFileHangs},
           ex2 : {ScenA, Scen404, ScenInfoHangs, ScenFileHangs},
           ex3 : {ScenInfoFails, ScenB, ScenFileHangs}] :
      Cardinality({ p \in DOMAIN u : Hangs(u[p].info) \/ Hangs(u[p].http) }) <= 1 }

\* A single run on an empty output directory over three vocabularies.
InitHang ==
  /\ run = 1
  /\ lastRun = 1
  /\ phase = "start"
  /\ pool \in 1..MaxWorkers
  /\ listing = ThreeListing
  /\ listOk \in BOOLEAN
  /\ upstream \in HangUpstreams
  /\ next = 0
  /\ results = <<>>
  /\ allClasses = NoFiles
  /\ allProperties = NoFiles
  /\ task = [w \in Workers |-> IdleTask]
  /\ ont = NoFiles
  /\ meta = NoFiles
  /\ tiny = NoFiles
  /\ pages = NoFiles
  /\ summary = <<>>
  /\ nsSummaries = NoFiles
  /\ writes = {}
  /\ requests = NoRequests
  /\ hist = FirstHist
  /\ call = NoCall

\* The event loop resumes every continuation whose awaited operation has completed:
\* a worker that can take a step takes it, and run() goes on once Promise.all resolves.
FairSchedule ==
  /\ \A w \in Workers : WF_vars(Step(w))
  /\ WF_vars(StartWorkers)
  /\ WF_vars(ListingFails)
  /\ WF_vars(Aggregate)
  /\ WF_vars(GroupNamespaces)

SpecHang == InitHang /\ [][NextOnce]_vars /\ FairSchedule

\* Upstreams whose calls all return: with a value, an HTTP error status or an exception.
ReturningUpstreams ==
  [ex : {ScenOneClass, ScenNoUsable},
   ex2 : {ScenA, Scen404, ScenNetwork, ScenMalformed},
   ex3 : {ScenInfoFails, ScenB}]

\* A single run on an empty output directory over one vocabulary or three, in which
\* every call returns.
InitFair ==
  /\ run = 1
  /\ lastRun = 1
  /\ phase = "start"
  /\ pool \in 1..MaxWorkers
  /\ listing \in {SingleListing, ThreeListing}
  /\ listOk \in BOOLEAN
  /\ upstream \in { u \in ReturningUpstreams :
                      listing = SingleListing => (u.ex2 = ScenA /\ u.ex3 = ScenB) }
  /\ next = 0
  /\ results = <<>>
  /\ allClasses = NoFiles
  /\ allProperties = NoFiles
  /\ task = [w \in Workers |-> IdleTask]
  /\ ont = NoFiles
  /\ meta = NoFiles
  /\ tiny = NoFiles
  /\ pages = NoFiles
  /\ summary = <<>>
  /\ nsSummaries = NoFiles
  /\ writes = {}
  /\ requests = NoRequests
  /\ hist = FirstHist
  /\ call = NoCall

\* That run under the event loop's scheduling.
SpecFair == InitFair /\ [][NextOnce]_vars /\ FairSchedule

\* ------------------------------------------------------------------ the functions, called on their own
\* The variables of the pipeline; they stay as they are while a function is called on
\* its own.
pipeVars ==
  << run, lastRun, phase, pool, listing, listOk, upstream, next, results, allClasses,
     allProperties, task, ont, meta, tiny, pages, summary, nsSummaries, writes, requests, hist >>

\* A call of function fn on input that has not returned yet.
Call(fn, input) == [fn |-> fn, input |-> input, called |-> FALSE, output |-> <<>>]

Returned(c, value) == [c EXCEPT !.called = TRUE, !.output = <<value>>]

\* Version entries of a registry info response: each field present or absent, the
\* issued value parseable or not; and the responses of up to MaxVersions entries.
VersionEntries ==
  { Version(f, i) : f \in {NULL, FileTtl, FileNew},
                    i \in {NULL, Issued2023, Issued2024, Issued2024Offset, IssuedJunk} }

VersionLists == UNION { [1..n -> VersionEntries] : n \in 0..MaxVersions }

\* Content-Type headers a file server sends: the MIME types rdf.ts names, with
\* parameters, padding and capitals, other types, and none.
Headers ==
  { NoHeader, CtTurtle, "application/x-turtle", "text/n3", "TEXT/RDF+N3",
    "application/n-triples", "application/trig", "text/trig;charset=utf-8",
    CtRdfXml, " Application/RDF+XML ;charset=utf-8", "application/ld+json",
    CtHtml, "application/octet-stream", "text/turtle-star" }

\* File URLs: the extensions rdf.ts names, another one, none, capitals, a query and a
\* fragment.
Urls ==
  { FileTtl, FileNew, FileRdf,
    "https://example.org/ex/v1.n3", "https://example.org/ex/v1.nt",
    "https://example.org/ex/v1.trig", "https://example.org/ex/v1.owl",
    "https://example.org/ex/v1.xml", "https://example.org/ex/v1.jsonld",
    "https://example.org/ex/v1.json", "https://example.org/ex/v1.html",
    "https://example.org/ex/V1.TTL?download=1", "https://example.org/ex/v1.nt#top",
    "https://example.org/ex.v1/latest" }

\* Quads of stores to classify: a subject with a class type and a property type,
\* one with a property type and rdfs:Class, one with an unrecognised type, a typed
\* blank node, a literal as the type, and a class as the object of another predicate.
TypeQuads ==
  { Quad(NamedNode(exThing), NamedNode(rdfType), NamedNode(owlClass)),
    Quad(NamedNode(exThing), NamedNode(rdfType), NamedNode(owlObjectProperty)),
    Quad(NamedNode(exKnows), NamedNode(rdfType), NamedNode(owlDatatypeProperty)),
    Quad(NamedNode(exKnows), NamedNode(rdfType), NamedNode(rdfsClass)),
    Quad(NamedNode(exOther), NamedNode(rdfType), NamedNode(exThing)),
    Quad(NamedNode(exOther), NamedNode(rdfsLabel), Literal("Other")),
    Quad(BlankNode("b0"), NamedNode(rdfType), NamedNode(owlClass)),
    Quad(NamedNode(exNote), NamedNode(rdfType), Literal(owlClass)),
    Quad(NamedNode(exNote), NamedNode("http://www.w3.org/2000/01/rdf-schema#subClassOf"),
         NamedNode(owlClass)) }

\* Quads of stores to sort: each of the four IRIs typed as a class twice over and as
\* a property.
SortQuads ==
  { Quad(NamedNode(iri), NamedNode(rdfType), NamedNode(t)) :
      iri \in {exThing, exOther, exKnows, exNote}, t \in {owlClass, rdfsClass, rdfProperty} }

\* Stores to summarise exThing from.  Each predicate of the two priority chains is
\* absent from the subject, or carries a literal with text (padded, for the labels),
\* or a blank literal; skos:prefLabel may also carry an IRI, and skos:prefLabel and
\* skos:definition may carry both a blank literal and one with text.  Another subject
\* always has a label.
SummaryPredicates ==
  { skosPrefLabel, rdfsLabel, dctTitle, skosDefinition, rdfsComment, dctDescription,
    skosScopeNote }

TextOf(p) ==
  CASE p = skosPrefLabel -> " Thing "
    [] p = rdfsLabel -> "thing (label)"
    [] p = dctTitle -> "The Thing\n"
    [] p = skosDefinition -> "A thing, defined."
    [] p = rdfsComment -> "A thing, commented."
    [] p = dctDescription -> "A thing, described."
    [] p = skosScopeNote -> "A thing, in scope."

ObjectOf(p, given) ==
  CASE given = "text" -> Literal(TextOf(p))
    [] given = "blank" -> Literal("  ")
    [] given = "iri" -> NamedNode(exOther)
    [] given = "both" -> Literal(TextOf(p))

SummaryChoices ==
  { c \in [SummaryPredicates -> {"absent", "text", "blank", "iri", "both"}] :
      \A p \in SummaryPredicates :
         /\ c[p] = "iri" => p = skosPrefLabel
         /\ c[p] = "both" => p \in {skosPrefLabel, skosDefinition} }

SummaryStore(c) ==
  { Quad(NamedNode(exThing), NamedNode(p), ObjectOf(p, c[p])) :
      p \in { x \in SummaryPredicates : c[x] # "absent" } }
    \cup { Quad(NamedNode(exThing), NamedNode(p), Literal("  ")) :
             p \in { x \in SummaryPredicates : c[x] = "both" } }
    \cup { Quad(NamedNode(exOther), NamedNode(rdfsLabel), Literal("Other")) }

Calls ==
  { Call("extractLatestVersion", versions) : versions \in VersionLists }
    \cup { Call("extractTermSummary", <<SummaryStore(c), exThing>>) : c \in SummaryChoices }
    \cup { Call("n3FormatFor", <<ct, url>>) : ct \in Headers, url \in Urls }
    \cup { Call("findClassesAndProperties", store) : store \in SUBSET TypeQuads }
    \cup { Call("findClassesAndProperties", store) : store \in SUBSET SortQuads }

InitFns ==
  /\ call \in Calls
  /\ run = 1
  /\ lastRun = 1
  /\ phase = "none"
  /\ pool = 1
  /\ listing = <<>>
  /\ listOk = FALSE
  /\ upstream = [ex |-> ScenInfoFails, ex2 |-> ScenInfoFails]
  /\ next = 0
  /\ results = <<>>
  /\ allClasses = NoFiles
  /\ allProperties = NoFiles
  /\ task = [w \in Workers |-> IdleTask]
  /\ ont = NoFiles
  /\ meta = NoFiles
  /\ tiny = NoFiles
  /\ pages = NoFiles
  /\ summary = <<>>
  /\ nsSummaries = NoFiles
  /\ writes = {}
  /\ requests = NoRequests
  /\ hist = FirstHist

\* processOne, line 80, once fetchJson has returned the info response.
CallExtractLatestVersion ==
  /\ call.fn = "extractLatestVersion"
  /\ ~call.called
  /\ call' = Returned(call, extractLatestVersion(call.input))
  /\ UNCHANGED pipeVars

\* parseAndSerializeToTurtle, line 48.
CallN3FormatFor ==
  /\ call.fn = "n3FormatFor"
  /\ ~call.called
  /\ call' = Returned(call, n3FormatFor(call.input[1], call.input[2]))
  /\ UNCHANGED pipeVars

\* processOne, line 161.
CallFindClassesAndProperties ==
  /\ call.fn = "findClassesAndProperties"
  /\ ~call.called
  /\ call' = Returned(call, findClassesAndProperties(call.input))
  /\ UNCHANGED pipeVars

\* processOne, lines 171 and 182.
CallExtractTermSummary ==
  /\ call.fn = "extractTermSummary"
  /\ ~call.called
  /\ call' = Returned(call, extractTermSummary(call.input[1], call.input[2]))
  /\ UNCHANGED pipeVars

NextFns ==
  \/ CallExtractTermSummary
  \/ CallExtractLatestVersion
  \/ CallN3FormatFor
  \/ CallFindClassesAndProperties

\* Each function called once, on each of its inputs.
SpecFns == InitFns /\ [][NextFns]_vars

\* ------------------------------------------------------------------ properties
\* The version the registry's info response resolves to in the current run.
Resolved(v) ==
  LET info == upstream[v.prefix].info
  IN IF info.ok THEN extractLatestVersion(info.versions) ELSE NoLatest

IndexOf(prefix) == (CHOOSE k \in 1..Len(vocabs) : vocabs[k].prefix = prefix) - 1

ArtifactPaths(v) == {OntPath(PrefixDir(v)), OntPath(UriDir(v))}

WroteArtifact(i) == \E p \in ArtifactPaths(vocabs[i + 1]) : Wrote(i, p) \in writes

SameFile(f, g, p) ==
  /\ (p \in DOMAIN f) <=> (p \in DOMAIN g)
  /\ (p \in DOMAIN f) => f[p] = g[p]

SummaryWritten == phase \in {"grouping", "done"}

\* A processOne call that has downloaded.
Fetched(t) == t.fr.finalUrl # NULL

\* A processOne call that is in, or about to return from, FetchFailed or ConversionFailed.
FailedAfterFetch(t) ==
  /\ t.pc \in {"metaPrefix", "metaUri", "return"}
  /\ Fetched(t)
  /\ ~(t.fr.ok /\ t.convertOk)

\* The cache condition read off the files of the vocabulary's by-prefix directory.
CachedOnDisk(v, latest) ==
  /\ OntPath(PrefixDir(v)) \in DOMAIN ont
  /\ MetaPath(PrefixDir(v)) \in DOMAIN meta
  /\ meta[MetaPath(PrefixDir(v))].lovLatestFileURL = latest.fileURL
  /\ meta[MetaPath(PrefixDir(v))].lovLatestIssued = latest.issued
  /\ meta[MetaPath(PrefixDir(v))].convert.ok

\* C1: a vocabulary's task writes the vocabulary's ontology.ttl (in by-prefix or in
\* by-uri) in a run only if the version resolved in this run differs from the one
\* recorded by the last successful persist, or the vocabulary's last attempt did not
\* succeed.
C1_OverwriteOnlyWhenStale ==
  \A k \in 1..Len(vocabs) :
    WroteArtifact(k - 1) =>
      \/ Resolved(vocabs[k]) # hist.lastPersist[vocabs[k].prefix]
      \/ hist.lastOk[vocabs[k].prefix] # "ok"

\* A third run rewrites the artifact for the version the first run persisted, because
\* the second run's attempt failed on another version.
C1_Witness ==
  \E k \in 1..Len(vocabs) :
    /\ Wrote(k - 1, OntPath(PrefixDir(vocabs[k]))) \in writes
    /\ Wrote(k - 1, OntPath(UriDir(vocabs[k]))) \in writes
    /\ hist.lastOk[vocabs[k].prefix] = "failed"
    /\ hist.lastPersist[vocabs[k].prefix] = Resolved(vocabs[k])

\* C2: a task whose version resolved returns the cache-hit record exactly when the
\* by-prefix artifact exists and the by-prefix meta.json records the resolved fileURL,
\* the resolved issued and convert.ok; otherwise it goes on to download, also when
\* only issued differs.
C2_CacheHitIffUpToDate ==
  \A w \in Workers :
    /\ task[w].pc \in {"cache", "fetch"} => task[w].latest = Resolved(Vocab(w))
                                          /\ task[w].latest # NoLatest
    /\ task[w].pc = "fetch" => ~CachedOnDisk(Vocab(w), task[w].latest)
    /\ (task[w].pc = "return" /\ task[w].ret.skipped) =>
         /\ CachedOnDisk(Vocab(w), task[w].latest)
         /\ ~Fetched(task[w])
         /\ task[w].ret.status = 304
    /\ (task[w].pc = "return" /\ ~task[w].ret.skipped /\ Resolved(Vocab(w)) # NoLatest) =>
         Fetched(task[w])

\* A task goes on to download although the artifact exists and the recorded fileURL and
\* convert.ok match: only issued changed.
C2_Witness ==
  \E w \in Workers :
    /\ task[w].pc = "fetch"
    /\ OntPath(PrefixDir(Vocab(w))) \in DOMAIN ont
    /\ MetaPath(PrefixDir(Vocab(w))) \in DOMAIN meta
    /\ meta[MetaPath(PrefixDir(Vocab(w)))].lovLatestFileURL = task[w].latest.fileURL
    /\ meta[MetaPath(PrefixDir(Vocab(w)))].convert.ok
    /\ meta[MetaPath(PrefixDir(Vocab(w)))].lovLatestIssued # task[w].latest.issued

\* The current run has written its summary and follows a completed run that saw the
\* same registry and file server.
SecondOfTwoAlikeRuns ==
  /\ run > 1
  /\ SummaryWritten
  /\ hist.prevUpstream = <<upstream>>

NoArtifactRewritten == \A k \in 1..Len(vocabs) : ~WroteArtifact(k - 1)

\* C3 as stated: the second of two runs on unchanged upstream data rewrites no
\* artifact, ends every vocabulary in CacheHit, and writes the summary of the first.
C3_Original ==
  SecondOfTwoAlikeRuns =>
    /\ NoArtifactRewritten
    /\ \A j \in 1..Len(results) : results[j].skipped /\ results[j].status = 304
    /\ results = hist.prevItems

\* C3 as amended: the second run rewrites no artifact; a vocabulary whose first record
\* was ok ends in CacheHit (ok, status 304, skipped, same version, same file names);
\* every other vocabulary gets the record it had; count and okCount are those of the
\* first summary.
C3_SecondRunReuses ==
  SecondOfTwoAlikeRuns =>
    /\ NoArtifactRewritten
    /\ Len(results) = Len(hist.prevItems)
    /\ summary[1].count = Len(hist.prevItems)
    /\ summary[1].okCount = Count(hist.prevItems, LAMBDA r : r.ok)
    /\ \A j \in 1..Len(results) :
         LET now == results[j]
             before == hist.prevItems[j]
         IN IF before.ok
              THEN /\ now.ok /\ now.skipped /\ now.status = 304
                   /\ now.prefix = before.prefix
                   /\ now.lovLatestFileURL = before.lovLatestFileURL
                   /\ now.lovLatestIssued = before.lovLatestIssued
                   /\ now.finalUrl = before.finalUrl
                   /\ now.fileByPrefix = before.fileByPrefix
                   /\ now.fileByUri = before.fileByUri
              ELSE now = before

\* A second run on unchanged data with one vocabulary that was persisted by the first
\* run and one that failed in it.
C3_Witness ==
  /\ SecondOfTwoAlikeRuns
  /\ \E j \in 1..Len(results) : hist.prevItems[j].ok /\ ~hist.prevItems[j].skipped
  /\ \E j \in 1..Len(results) : ~hist.prevItems[j].ok

\* What the registry and the file server hold makes the vocabulary's task fail, if
\* the task gets as far as the download.
InfoUnusable(sc) == ~sc.info.ok \/ extractLatestVersion(sc.info.versions) = NoLatest

DownloadUnusable(sc, latest) ==
  \/ sc.http.throws
  \/ ~ResOk(sc.http.status)
  \/ ~parseAndSerializeToTurtle(sc.http.text, sc.http.contentType, latest.fileURL).ok

\* C4: no failure of a vocabulary aborts the batch.  Only a failed list call aborts a
\* run; a run whose workers have all returned holds one record per vocabulary; and
\* the summary holds exactly one record per vocabulary, with ok = false for a
\* vocabulary whose version did not resolve, whose download failed, or whose file was
\* declined or did not parse.
C4_FailuresAreContained ==
  /\ phase = "aborted" => ~listOk /\ results = <<>>
  /\ (phase = "working" /\ \A w \in 1..pool : task[w].pc = "exit") =>
        Len(results) = Len(vocabs)
  /\ SummaryWritten =>
       /\ Len(summary) = 1
       /\ summary[1].items = results
       /\ \A k \in 1..Len(vocabs) :
            /\ Cardinality({ j \in 1..Len(results) : results[j].prefix = vocabs[k].prefix }) = 1
            /\ \A j \in 1..Len(results) :
                 results[j].prefix = vocabs[k].prefix =>
                   LET sc == upstream[vocabs[k].prefix]
                   IN /\ InfoUnusable(sc) => ~results[j].ok
                      /\ (~InfoUnusable(sc) /\ ~results[j].skipped
                            /\ DownloadUnusable(sc, Resolved(vocabs[k]))) => ~results[j].ok

\* A summary with the record of a vocabulary that failed and the record of one that
\* was persisted.
C4_Witness ==
  /\ SummaryWritten
  /\ \E j \in 1..Len(results) : ~results[j].ok /\ results[j].detailed
  /\ \E j \in 1..Len(results) : Persisted(results[j])

\* The file server answers the vocabulary's download with a non-success HTTP status.
HttpFailure(sc) == ~sc.http.throws /\ ~ResOk(sc.http.status)

\* C5: when the download of a vocabulary's resolved file returns a non-success HTTP
\* status S, the task's record has ok = false, status = S and no file names; the task
\* writes no ontology.ttl; the by-prefix ontology.ttl is as it was at the start of the
\* run, and so is the by-uri one unless another vocabulary's task wrote it.
C5_HttpFailureLeavesArtifact ==
  /\ \A w \in Workers :
       (FailedAfterFetch(task[w]) /\ HttpFailure(upstream[Vocab(w).prefix])) =>
          /\ ~task[w].fr.ok
          /\ task[w].fr.status = upstream[Vocab(w).prefix].http.status
          /\ ~WroteArtifact(task[w].i)
          /\ SameFile(ont, hist.ontAtStart, OntPath(PrefixDir(Vocab(w))))
          /\ task[w].pc = "return" =>
               /\ ~task[w].ret.ok
               /\ task[w].ret.status = upstream[Vocab(w).prefix].http.status
  /\ \A j \in 1..Len(results) :
       (results[j].detailed /\ HttpFailure(upstream[results[j].prefix])) =>
          LET i == IndexOf(results[j].prefix)
              v == vocabs[i + 1]
          IN /\ ~results[j].ok
             /\ results[j].status = upstream[results[j].prefix].http.status
             /\ results[j].fileByPrefix = <<>>
             /\ results[j].fileByUri = <<>>
             /\ ~WroteArtifact(i)
             /\ SameFile(ont, hist.ontAtStart, OntPath(PrefixDir(v)))
             /\ \/ SameFile(ont, hist.ontAtStart, OntPath(UriDir(v)))
                \/ \E other \in 0..(Len(vocabs) - 1) :
                     other # i /\ Wrote(other, OntPath(UriDir(v))) \in writes

\* A download answered 404 for a vocabulary whose artifact an earlier run persisted.
C5_Witness ==
  \E j \in 1..Len(results) :
    /\ results[j].detailed
    /\ results[j].status = 404
    /\ OntPath(PrefixDir(vocabs[IndexOf(results[j].prefix) + 1])) \in DOMAIN ont
    /\ hist.lastPersist[results[j].prefix] # NoLatest

\* C6: a record has status 422 exactly when the download succeeded and the conversion
\* failed; no record of a failed download has status 422.
C6_Status422IffConversionFailed ==
  \A w \in Workers :
    (task[w].pc = "return" /\ Fetched(task[w])) =>
       (task[w].ret.status = 422 <=> (task[w].fr.ok /\ ~task[w].convertOk))

\* The files a task may write once its download or its conversion has failed.
MetaPaths(v) == {MetaPath(PrefixDir(v)), MetaPath(UriDir(v))}

WrittenBy(i) == { e.path : e \in { x \in writes : x.by = i } }

\* C7 as stated: a task that ends in FetchFailed or ConversionFailed writes no file.
C7_Original ==
  /\ \A w \in Workers : FailedAfterFetch(task[w]) => WrittenBy(task[w].i) = {}
  /\ \A j \in 1..Len(results) :
       (results[j].detailed /\ ~results[j].ok) => WrittenBy(IndexOf(results[j].prefix)) = {}

\* C7 as amended: a task that ends in FetchFailed or ConversionFailed writes the two
\* meta.json records (which record the failure) and nothing else: no ontology.ttl, no
\* tiny term file, no per-vocabulary index.html.
C7_FailureWritesOnlyMeta ==
  /\ \A w \in Workers :
       FailedAfterFetch(task[w]) =>
         /\ WrittenBy(task[w].i) \subseteq MetaPaths(Vocab(w))
         /\ task[w].pc = "return" =>
              /\ WrittenBy(task[w].i) = MetaPaths(Vocab(w))
              /\ ~meta[MetaPath(PrefixDir(Vocab(w)))].convert.ok
  /\ \A j \in 1..Len(results) :
       (results[j].detailed /\ ~results[j].ok) =>
          WrittenBy(IndexOf(results[j].prefix)) = MetaPaths(vocabs[IndexOf(results[j].prefix) + 1])

\* A recorded parse failure whose by-prefix meta.json records the failed conversion.
C7_Witness ==
  \E j \in 1..Len(results) :
    /\ results[j].detailed
    /\ results[j].status = 422
    /\ results[j].note = "Parse failed"
    /\ ~meta[MetaPath(PrefixDir(vocabs[IndexOf(results[j].prefix) + 1]))].convert.ok

\* C8: once the summary is written, for every vocabulary with an ok record the by-uri
\* ontology.ttl exists and has the content of the vocabulary's by-prefix ontology.ttl.
C8_MirrorsAgree ==
  SummaryWritten =>
    \A j \in 1..Len(results) :
      results[j].ok =>
        LET v == vocabs[IndexOf(results[j].prefix) + 1]
        IN /\ OntPath(PrefixDir(v)) \in DOMAIN ont
           /\ OntPath(UriDir(v)) \in DOMAIN ont
           /\ ont[OntPath(UriDir(v))] = ont[OntPath(PrefixDir(v))]

\* The graphs the file server's documents hold.
SourceGraphs == {GraphA, GraphB}

Kinds == {"classes", "properties"}

\* C9: every tiny term file holds only quads of one source graph whose subject is the
\* file's term IRI and whose predicate is in DEF_PREDICATES.
C9_TinyFilesAreFiltered ==
  \A p \in DOMAIN tiny :
    \E kind \in Kinds, iri \in { IriOrder[k] : k \in 1..Len(IriOrder) }, g \in SourceGraphs :
      /\ p = TinyPath(kind, iri)
      /\ tiny[p].quads # {}
      /\ tiny[p].quads \subseteq g
      /\ \A q \in tiny[p].quads :
           /\ q.subject = NamedNode(iri)
           /\ q.predicate.value \in DEF_PREDICATES

\* Tiny files exist for a class and for a property whose source graphs hold a quad with
\* a predicate outside DEF_PREDICATES on them, and a quad of another subject.
C9_Witness ==
  /\ TinyPath("classes", exThing) \in DOMAIN tiny
  /\ tiny[TinyPath("classes", exThing)].quads \subseteq GraphA
  /\ TinyPath("properties", exKnows) \in DOMAIN tiny

\* A worker is inside processOne.
Active(w) == task[w].pc \notin {"none", "exit"}

\* C10: every index below next that is an index of the list belongs to exactly one
\* task in flight or one recorded result, never to both or to two; no index at or
\* above next is claimed; and when all workers have returned, results holds exactly
\* one record per vocabulary.
C10_EachIndexOnce ==
  /\ pool >= 1
  /\ \A i \in 0..(Len(vocabs) - 1) :
       LET holders == Cardinality({ w \in Workers : Active(w) /\ task[w].i = i })
           records == Cardinality({ j \in 1..Len(results) : results[j].prefix = vocabs[i + 1].prefix })
       IN IF phase \in {"working", "grouping", "done"} /\ i < next
            THEN holders + records = 1
            ELSE holders + records = 0
  /\ (phase = "working" /\ \A w \in 1..pool : task[w].pc = "exit") =>
       /\ Len(results) = Len(vocabs)
       /\ next = Len(vocabs) + pool

\* All workers of a pool larger than the list have returned.
C10_Witness ==
  /\ phase = "working"
  /\ pool > Len(vocabs)
  /\ \A w \in 1..pool : task[w].pc = "exit"
  /\ Len(results) = Len(vocabs)

\* C11: within one run no file path is written by two different vocabulary tasks.
C11_TasksWriteOwnFiles ==
  \A a \in writes, b \in writes : a.path = b.path => a.by = b.by

\* A version entry extractLatestVersion keeps: it has a fileURL and an issued value
\* that parses to a finite timestamp.
Usable(v) == v.fileURL # NULL /\ v.issued # NULL /\ IsFinite(parseIssuedMs(v.issued))

UsableAt(versions) == { k \in 1..Len(versions) : Usable(versions[k]) }

\* C12: extractLatestVersion returns null when no entry of the response is usable;
\* otherwise it returns the (fileURL, issued) pair of a usable entry whose timestamp
\* is at least that of every other usable entry.
C12_LatestUsableVersion ==
  (call.fn = "extractLatestVersion" /\ call.called) =>
    LET versions == call.input
        out == call.output[1]
    IN IF UsableAt(versions) = {} THEN out = NoLatest
       ELSE \E k \in UsableAt(versions) :
              /\ out = Version(versions[k].fileURL, versions[k].issued)
              /\ \A m \in UsableAt(versions) :
                   parseIssuedMs(versions[m].issued) <= parseIssuedMs(versions[k].issued)

\* The latest usable entry comes after an older usable one, an entry without fileURL
\* and issued 2024, and the response holds an entry whose issued does not parse.
C12_Witness ==
  /\ call.fn = "extractLatestVersion"
  /\ call.called
  /\ Len(call.input) = 3
  /\ Usable(call.input[1])
  /\ call.output[1] # Version(call.input[1].fileURL, call.input[1].issued)
  /\ call.output[1].issued = Issued2024
  /\ \E k \in 1..3 : call.input[k].issued = IssuedJunk /\ call.input[k].fileURL # NULL

\* The registry's info call for the vocabulary fails, or its response holds no usable
\* version.
Unresolved(v) == Resolved(v) = NoLatest

\* The record of a vocabulary whose version was not resolved.
UnresolvedRecord(r) ==
  /\ ~r.ok
  /\ r.status = 0
  /\ r.lovLatestFileURL = NULL
  /\ r.lovLatestIssued = NULL
  /\ r.finalUrl = NULL
  /\ r.fileByPrefix = <<>>
  /\ r.fileByUri = <<>>
  /\ r.note = "Could not fetch LOV info or no versions/fileURL"

\* C13: for a vocabulary whose info call fails and for one with no usable version
\* alike, the task never reaches the download, writes no file, leaves the by-prefix
\* ontology.ttl and meta.json as they were at the start of the run, and returns a
\* record with ok = false, status 0, null version fields and a note.
C13_UnresolvedTouchesNothing ==
  \A k \in 1..Len(vocabs) :
    (Unresolved(vocabs[k]) /\ phase \in {"working", "grouping", "done"}) =>
      /\ WrittenBy(k - 1) = {}
      /\ SameFile(ont, hist.ontAtStart, OntPath(PrefixDir(vocabs[k])))
      /\ SameFile(meta, hist.metaAtStart, MetaPath(PrefixDir(vocabs[k])))
      /\ \A w \in Workers :
           (Active(w) /\ task[w].i = k - 1) =>
             /\ task[w].pc \in {"resolve", "return"}
             /\ ~Fetched(task[w])
             /\ task[w].pc = "return" => UnresolvedRecord(task[w].ret)
      /\ \A j \in 1..Len(results) :
           results[j].prefix = vocabs[k].prefix => UnresolvedRecord(results[j])

\* Two vocabularies are recorded as unresolved in a later run, one whose info call
\* failed and one whose response had no usable version, the latter with an artifact
\* and a meta.json of an earlier run on disk.
C13_Witness ==
  /\ run > 1
  /\ Len(results) = 2
  /\ \E j \in 1..2 : ~upstream[results[j].prefix].info.ok /\ UnresolvedRecord(results[j])
  /\ \E j \in 1..2 :
       /\ upstream[results[j].prefix].info.ok
       /\ UnresolvedRecord(results[j])
       /\ OntPath(PrefixDir(vocabs[IndexOf(results[j].prefix) + 1])) \in DOMAIN ont
       /\ MetaPath(PrefixDir(vocabs[IndexOf(results[j].prefix) + 1])) \in DOMAIN meta

\* The two MIME types rdf.ts declines, and the extensions it declines.
UnsupportedMime == {"application/rdf+xml", "application/ld+json"}

UnsupportedExt == {"rdf", "owl", "xml", "jsonld", "json"}

\* C14: for a content type whose base is application/rdf+xml or application/ld+json,
\* n3FormatFor returns null (unsupported) whatever the source URL is.
C14_UnsupportedMimeAlwaysDeclined ==
  (call.fn = "n3FormatFor" /\ call.called) =>
    (contentTypeBase(call.input[1]) \in UnsupportedMime => call.output[1] = NULL)

\* The serialization rdf.ts names for a MIME type and for an extension; NULL for none.
MimeTable(ct) ==
  CASE ct = "text/turtle" -> "turtle"
    [] ct = "application/x-turtle" -> "turtle"
    [] ct = "text/n3" -> "n3"
    [] ct = "text/rdf+n3" -> "n3"
    [] ct = "application/n-triples" -> "ntriples"
    [] ct = "application/trig" -> "trig"
    [] ct = "text/trig" -> "trig"
    [] OTHER -> NULL

ExtTable(ext) ==
  CASE ext = "ttl" -> "turtle"
    [] ext = "n3" -> "n3"
    [] ext = "nt" -> "ntriples"
    [] ext = "trig" -> "trig"
    [] OTHER -> NULL

\* C15: a content type whose base (parameters stripped, trimmed, lower-cased) is a
\* supported MIME type decides the result whatever the URL's extension; without such
\* a MIME type a supported extension decides; and when the content type and the
\* extension are neither supported nor declined the result is turtle.
C15_MimeThenExtensionThenTurtle ==
  (call.fn = "n3FormatFor" /\ call.called) =>
    LET ct == contentTypeBase(call.input[1])
        ext == urlExt(call.input[2])
        out == call.output[1]
    IN /\ MimeTable(ct) # NULL => out = MimeTable(ct)
       /\ (MimeTable(ct) = NULL /\ ExtTable(ext) # NULL) => out = ExtTable(ext)
       /\ (MimeTable(ct) = NULL /\ ExtTable(ext) = NULL
             /\ ct \notin UnsupportedMime /\ ext \notin UnsupportedExt) => out = "turtle"

\* A header with capitals, padding and a parameter decides for turtle although the
\* URL ends in .rdf.
C15_Witness ==
  /\ call.fn = "n3FormatFor"
  /\ call.called
  /\ call.input = <<"Text/Turtle ; charset=utf-8", "https://example.org/ex/v1.rdf">>
  /\ call.output = <<"turtle">>

\* The IRIs of the model's graphs.
Iris == { IriOrder[k] : k \in 1..Len(IriOrder) }

\* The store holds an rdf:type quad on the IRI whose object is an IRI in types.
TypedAs(store, iri, types) ==
  \E q \in store :
    /\ q.subject = NamedNode(iri)
    /\ q.predicate = NamedNode(rdfType)
    /\ q.object.termType = "NamedNode"
    /\ q.object.value \in types

Elements(seq) == { seq[k] : k \in 1..Len(seq) }

\* C16: the classes returned are exactly the IRI subjects with an rdf:type quad whose
\* object is a class-type IRI, the properties exactly those with one whose object is
\* a property-type IRI; a subject with both kinds is in both lists, a subject with
\* neither in none.
C16_ClassifiedByTypeOnly ==
  (call.fn = "findClassesAndProperties" /\ call.called) =>
    /\ Elements(call.output[1].classes) = { iri \in Iris : TypedAs(call.input, iri, CLASS_TYPES) }
    /\ Elements(call.output[1].properties) = { iri \in Iris : TypedAs(call.input, iri, PROPERTY_TYPES) }

\* A store with a subject in both lists, a subject with an unrecognised type, a typed
\* blank node and a literal naming a class type.
C16_Witness ==
  /\ call.fn = "findClassesAndProperties"
  /\ call.called
  /\ call.input = TypeQuads
  /\ call.output[1].classes = <<exThing, exKnows>>
  /\ call.output[1].properties = <<exThing, exKnows>>

\* The priority chains of extractTermSummary.
LabelChain == <<skosPrefLabel, rdfsLabel, dctTitle>>

DescriptionChain == <<skosDefinition, rdfsComment, dctDescription, skosScopeNote>>

\* The texts a predicate offers on a subject: its literal values that are not blank,
\* trimmed.
TextsOf(store, iri, p) ==
  { trim(q.object.value) :
      q \in { c \in store : /\ c.subject = NamedNode(iri)
                            /\ c.predicate = NamedNode(p)
                            /\ c.object.termType = "Literal"
                            /\ trim(c.object.value) # "" } }

\* out is a text of the first predicate of the chain that offers one, or null when
\* none does.
TakenFrom(store, iri, chain, out) ==
  LET offering == { k \in 1..Len(chain) : TextsOf(store, iri, chain[k]) # {} }
  IN IF offering = {} THEN out = NULL
     ELSE out \in TextsOf(store, iri, chain[CHOOSE k \in offering : \A m \in offering : k <= m])

\* C17: the label is taken from skos:prefLabel before rdfs:label before dcterms:title,
\* the description from skos:definition before rdfs:comment before dcterms:description
\* before skos:scopeNote; for a subject with none of these predicates both are null.
C17_SummaryFollowsPriority ==
  (call.fn = "extractTermSummary" /\ call.called) =>
    /\ TakenFrom(call.input[1], call.input[2], LabelChain, call.output[1].label)
    /\ TakenFrom(call.input[1], call.input[2], DescriptionChain, call.output[1].description)
    /\ (\A q \in call.input[1] :
          q.subject = NamedNode(call.input[2]) => q.predicate.value \notin SummaryPredicates)
         => call.output[1] = [label |-> NULL, description |-> NULL]

\* The subject has skos:prefLabel, rdfs:label and dcterms:title, and rdfs:comment and
\* skos:scopeNote but no skos:definition: the label is the preferred label, the
\* description the comment.
C17_Witness ==
  /\ call.fn = "extractTermSummary"
  /\ call.called
  /\ Quad(NamedNode(exThing), NamedNode(rdfsLabel), Literal("thing (label)")) \in call.input[1]
  /\ Quad(NamedNode(exThing), NamedNode(dctTitle), Literal("The Thing\n")) \in call.input[1]
  /\ Quad(NamedNode(exThing), NamedNode(skosScopeNote), Literal("A thing, in scope.")) \in call.input[1]
  /\ \A q \in call.input[1] : q.predicate # NamedNode(skosDefinition)
  /\ call.output[1] = [label |-> "Thing", description |-> "A thing, commented."]

\* The listing's only vocabulary is ex with canonical URI http://example.org/ex#, its
\* single version is a Turtle file holding one owl:Class with one rdfs:label, and the
\* run has written the global summary.
OneClassRunDone ==
  /\ Len(vocabs) = 1
  /\ vocabs[1].prefix = "ex"
  /\ vocabs[1].uri = "http://example.org/ex#"
  /\ upstream.ex = ScenOneClass
  /\ SummaryWritten

\* C18: such a run on an empty output directory leaves the artifact in by-prefix/ex/
\* and in by-uri/<encoded uri>/, exactly one tiny term file, the class's, holding its
\* type and label quads only, and a summary whose single record has ok = true,
\* skipped = false and lists the one class.
C18_OneClassEndToEnd ==
  OneClassRunDone =>
    /\ DOMAIN ont = { <<"by-prefix", "ex", "ontology.ttl">>,
                      <<"by-uri", "http%3A%2F%2Fexample.org%2Fex%23", "ontology.ttl">> }
    /\ \A p \in DOMAIN ont : ont[p] = WriteTurtle(GraphOne)
    /\ DOMAIN tiny = { <<"classes", "http%3A%2F%2Fexample.org%2Fex%23Thing", ".ttl">> }
    /\ \A p \in DOMAIN tiny :
         tiny[p].quads = { Quad(NamedNode(exThing), NamedNode(rdfType), NamedNode(owlClass)),
                           Quad(NamedNode(exThing), NamedNode(rdfsLabel), Literal("Thing")) }
    /\ Len(summary) = 1
    /\ summary[1].count = 1
    /\ summary[1].okCount = 1
    /\ Len(summary[1].items) = 1
    /\ summary[1].items[1].prefix = "ex"
    /\ summary[1].items[1].ok
    /\ ~summary[1].items[1].skipped
    /\ summary[1].items[1].classCount = 1
    /\ Len(summary[1].items[1].classLinks) = 1
    /\ summary[1].items[1].classLinks[1].iri = exThing
    /\ summary[1].items[1].propLinks = <<>>

\* The run over the single vocabulary has ended and its record is in the summary.
C18_Witness ==
  /\ OneClassRunDone
  /\ phase = "done"
  /\ summary[1].items[1].status = 200

\* C19: a run is aborted only by a failed list call, never by a failure of an info
\* call or of a download; a run whose list call fails starts no task, and an aborted
\* run has recorded no result, written no file and left the ontology.ttl and
\* meta.json files as they were at its start.
C19_OnlyListingFailureAborts ==
  /\ phase = "aborted" => ~listOk
  /\ ~listOk =>
       /\ phase \in {"start", "aborted"}
       /\ \A w \in Workers : task[w] = IdleTask
       /\ next = 0
       /\ results = <<>>
       /\ writes = {}
       /\ ont = hist.ontAtStart
       /\ meta = hist.metaAtStart
       /\ run = 1 => /\ summary = <<>>
                     /\ nsSummaries = NoFiles
                     /\ tiny = NoFiles
                     /\ pages = NoFiles

\* A later run is aborted; the files of the run before it are on disk.
C19_Witness ==
  /\ phase = "aborted"
  /\ run > 1
  /\ Len(summary) = 1
  /\ ont # NoFiles

\* Two sequences hold the same records, each as often.
SameRecords(a, b) ==
  /\ Len(a) = Len(b)
  /\ \A j \in 1..Len(a) :
       Cardinality({ k \in 1..Len(a) : a[k] = a[j] }) = Cardinality({ k \in 1..Len(b) : b[k] = a[j] })

AllTasksCompleted == \A w \in Workers : ~Active(w)

\* The global summary of the current run.
SummaryIsOfResults ==
  SummaryWritten =>
    /\ Len(summary) = 1
    /\ AllTasksCompleted
    /\ summary[1].items = results
    /\ \A j \in 1..Len(results), k \in 1..Len(results) :
         j < k => PrefixRank(results[j].prefix) <= PrefixRank(results[k].prefix)
    /\ summary[1].count = Len(vocabs)
    /\ summary[1].count = Len(results)
    /\ summary[1].okCount = Cardinality({ j \in 1..Len(results) : results[j].ok })
    /\ summary[1].skippedCount = Cardinality({ j \in 1..Len(results) : results[j].skipped })

\* C20: index.json is written only when every task has completed; it then holds all
\* result records, sorted by prefix, with count the number of vocabulary entries,
\* okCount the number of records with ok = true and skippedCount the number with
\* skipped = true.
C20_SummaryAfterAllTasks ==
  /\ [](/\ SummaryIsOfResults
        /\ Wrote(Aggregator, SummaryPath) \in writes => AllTasksCompleted /\ SummaryWritten)
  /\ [][Wrote(Aggregator, SummaryPath) \in (writes' \ writes) =>
          /\ AllTasksCompleted
          /\ Len(results) = Len(vocabs)
          /\ SameRecords(results, summary'[1].items)]_vars

\* The summary of a later run over two vocabularies listed out of prefix order, one
\* of them skipped, one failed.
C20_Witness ==
  /\ SummaryWritten
  /\ vocabs[1].prefix = "ex2"
  /\ summary[1].count = 2
  /\ summary[1].items[1].prefix = "ex"
  /\ summary[1].okCount = 1
  /\ summary[1].skippedCount = 1

\* The namespace groups on disk after a single run on an empty output directory.
Groups == { nsSummaries[p] : p \in DOMAIN nsSummaries }

\* How often record r is an item of group g.
TimesIn(g, r) == Cardinality({ k \in 1..Len(g.items) : g.items[k] = r })

RECURSIVE SumOfCounts(_)
SumOfCounts(gs) ==
  IF gs = {} THEN 0
  ELSE LET g == CHOOSE x \in gs : TRUE IN g.count + SumOfCounts(gs \ {g})

\* C21: after grouping, a result with a namespace is an item of the group of its
\* namespace, once, and of no other group; a result without a namespace is an item of
\* no group and is in the global summary; every group's count is the number of its
\* items; the counts add up to the number of results with a namespace; and there is
\* one group file per namespace.
C21_GroupsPartitionNamespaced ==
  phase = "done" =>
    /\ \A j \in 1..Len(results) :
         /\ results[j].namespace # NULL =>
              \A g \in Groups :
                TimesIn(g, results[j]) = IF g.namespace = results[j].namespace THEN 1 ELSE 0
         /\ results[j].namespace # NULL => \E g \in Groups : g.namespace = results[j].namespace
         /\ results[j].namespace = NULL =>
              /\ \A g \in Groups : TimesIn(g, results[j]) = 0
              /\ \E k \in 1..Len(summary[1].items) : summary[1].items[k] = results[j]
    /\ \A g \in Groups : g.count = Len(g.items) /\ g.count > 0
    /\ \A g \in Groups, h \in Groups : g.namespace = h.namespace => g = h
    /\ SumOfCounts(Groups) = Cardinality({ j \in 1..Len(results) : results[j].namespace # NULL })
    /\ \A p \in DOMAIN nsSummaries : p = NsPath(nsSummaries[p].namespace)

\* Two vocabularies with two namespaces were grouped into two groups of one.
C21_Witness ==
  /\ phase = "done"
  /\ Cardinality(Groups) = 2
  /\ \A j \in 1..Len(results) : results[j].namespace # NULL
  /\ \A g \in Groups : g.count = 1

\* One of two vocabularies has no namespace: one group of one, two records in the
\* global summary.
C21_WitnessUngrouped ==
  /\ phase = "done"
  /\ Cardinality(Groups) = 1
  /\ \E j \in 1..Len(results) : results[j].namespace = NULL
  /\ summary[1].count = 2

\* The state of the per-vocabulary state machine a processOne call is in.  A worker that
\* is not inside processOne is Idle.
TaskState(t) ==
  CASE t.pc \in {"none", "exit"} -> "Idle"
    [] t.pc = "resolve" -> "Start"
    [] t.pc = "cache" -> "VersionResolved"
    [] t.pc = "fetch" -> "CacheMiss"
    [] t.pc = "convert" -> "Fetched"
    [] t.pc \in {"writeOntPrefix", "writeOntUri"} -> "Converted"
    [] t.pc \in {"tinyCheck", "tinyWrite", "indexHtml"} -> "TermsExtracted"
    [] OTHER ->
       IF t.latest = NoLatest THEN "VersionUnresolved"
       ELSE IF ~Fetched(t) THEN "CacheHit"
       ELSE IF ~t.fr.ok THEN "FetchFailed"
       ELSE IF ~t.convertOk THEN "ConversionFailed"
       ELSE "Persisted"

TerminalStates == {"VersionUnresolved", "CacheHit", "FetchFailed", "ConversionFailed", "Persisted"}

\* The transitions of the state machine.
Transitions ==
  { <<"Start", "VersionResolved">>, <<"Start", "VersionUnresolved">>,
    <<"VersionResolved", "CacheHit">>, <<"VersionResolved", "CacheMiss">>,
    <<"CacheMiss", "Fetched">>, <<"CacheMiss", "FetchFailed">>,
    <<"Fetched", "Converted">>, <<"Fetched", "ConversionFailed">>,
    <<"Converted", "TermsExtracted">>, <<"TermsExtracted", "Persisted">> }

\* A step of a worker from t to u: none, a transition of the machine, a step inside a
\* state (one more file written), or the return of processOne from a terminal state,
\* after which the worker starts the machine of another vocabulary or returns.
FollowsMachine(t, u) ==
  \/ t = u
  \/ <<TaskState(t), TaskState(u)>> \in Transitions
  \/ /\ TaskState(t) = TaskState(u)
     /\ TaskState(t) \in {"Converted", "TermsExtracted", "FetchFailed", "ConversionFailed", "Persisted"}
     /\ t.pc # "return"
  \/ /\ t.pc = "return"
     /\ TaskState(t) \in TerminalStates
     /\ TaskState(u) \in {"Start", "Idle"}
  \/ TaskState(t) = "Idle" /\ TaskState(u) \in {"Start", "Idle"}

\* The paths of the artifact, the tiny term files and the page a task writes.
PersistPaths(v) ==
  ArtifactPaths(v) \cup {PagePath(PrefixDir(v))}
    \cup { TinyPath(kind, iri) : kind \in Kinds, iri \in Iris }

\* What a task has done agrees with the state it is in.
StateMatchesDeeds ==
  \A w \in Workers :
    LET t == task[w]
        s == TaskState(t)
    IN Active(w) =>
         /\ t.pc = "return" => s \in TerminalStates
         /\ s \in TerminalStates =>
              (t.pc \in {"metaPrefix", "metaUri", "return"}
                 /\ (s \in {"VersionUnresolved", "CacheHit"} => t.pc = "return"))
         /\ Fetched(t) <=> s \in {"Fetched", "FetchFailed", "Converted", "ConversionFailed",
                                  "TermsExtracted", "Persisted"}
         /\ Fetched(t) => t.latest # NoLatest /\ t.latest = Resolved(Vocab(w))
         /\ s \in {"Start", "VersionUnresolved"} => t.latest = NoLatest
         /\ s = "CacheHit" => t.ret.skipped /\ WrittenBy(t.i) = {}
         /\ t.convertOk <=> s \in {"Converted", "TermsExtracted", "Persisted"}
         /\ s \in {"FetchFailed", "ConversionFailed"} =>
              /\ t.conv = NoConv
              /\ WrittenBy(t.i) \cap PersistPaths(Vocab(w)) = {}
         /\ s = "Persisted" => ArtifactPaths(Vocab(w)) \subseteq WrittenBy(t.i)

CacheHitRecord(r) == r.ok /\ r.status = 304 /\ r.skipped

\* The vocabulary's files in by-prefix are as they were at the start of the run.
PrefixFilesUntouched(v) ==
  /\ SameFile(ont, hist.ontAtStart, OntPath(PrefixDir(v)))
  /\ SameFile(meta, hist.metaAtStart, MetaPath(PrefixDir(v)))

\* C24: a task that returns from the cache check has not downloaded and has written no
\* file (no ontology.ttl, no meta.json, no tiny term file, no page); the vocabulary's
\* by-prefix ontology.ttl and meta.json are as they were at the start of the run; and
\* its record has ok = true, status 304 and skipped = true.  Only such tasks return
\* that record.
C24_CacheHitWritesNothing ==
  /\ \A w \in Workers :
       (task[w].pc = "return" /\ TaskState(task[w]) = "CacheHit") =>
         /\ ~Fetched(task[w])
         /\ task[w].fr = NoFetch
         /\ WrittenBy(task[w].i) = {}
         /\ PrefixFilesUntouched(Vocab(w))
         /\ CacheHitRecord(task[w].ret)
  /\ \A w \in Workers :
       (task[w].pc = "return" /\ TaskState(task[w]) # "CacheHit") =>
         ~task[w].ret.skipped /\ task[w].ret.status # 304
  /\ \A j \in 1..Len(results) :
       (results[j].skipped \/ results[j].status = 304) =>
          /\ CacheHitRecord(results[j])
          /\ WrittenBy(IndexOf(results[j].prefix)) = {}
          /\ PrefixFilesUntouched(vocabs[IndexOf(results[j].prefix) + 1])

\* A cache hit is recorded in a run in which the task of another vocabulary has written
\* its artifact.
C24_Witness ==
  /\ \E j \in 1..Len(results) : CacheHitRecord(results[j])
  /\ \E k \in 1..Len(vocabs) : WroteArtifact(k - 1)

\* C25: every record of a task that ended in FetchFailed or ConversionFailed has
\* ok = false and a non-empty note, whether the download was answered with a
\* non-success HTTP status, threw, or the file was declined or did not parse.
C25_FailureRecordsCarryNote ==
  /\ \A w \in Workers :
       (task[w].pc = "return" /\ TaskState(task[w]) \in {"FetchFailed", "ConversionFailed"}) =>
         ~task[w].ret.ok /\ task[w].ret.note # NULL
  /\ \A j \in 1..Len(results) :
       (results[j].detailed /\ ~results[j].ok) => results[j].note # NULL

\* C26: a tiny term file is written at most once: no step writes a tiny term file that
\* exists already, so a tiny term file never changes once it is there.
C26_TinyFileWrittenOnce ==
  [][/\ \A e \in writes' \ writes : e.path \notin DOMAIN tiny
     /\ \A p \in DOMAIN tiny : p \in DOMAIN tiny' /\ tiny'[p] = tiny[p]]_vars

\* The workers inside processOne: the vocabulary tasks in flight.
InFlight == { w \in Workers : Active(w) }

\* The file writes of task i so far follow the order of the awaits in processOne: the
\* by-prefix artifact, the by-uri artifact, the tiny term files, the page, the by-prefix
\* meta.json, the by-uri meta.json.
WritesInProgramOrder(i) ==
  LET v == vocabs[i + 1]
      done == WrittenBy(i)
      tinyDone == { p \in done : \E kind \in Kinds, iri \in Iris : p = TinyPath(kind, iri) }
  IN /\ OntPath(UriDir(v)) \in done => OntPath(PrefixDir(v)) \in done
     /\ tinyDone # {} => OntPath(UriDir(v)) \in done
     /\ PagePath(PrefixDir(v)) \in done => OntPath(UriDir(v)) \in done
     /\ (MetaPath(PrefixDir(v)) \in done /\ OntPath(PrefixDir(v)) \in done) =>
          PagePath(PrefixDir(v)) \in done
     /\ MetaPath(UriDir(v)) \in done => MetaPath(PrefixDir(v)) \in done

\* A step completes at most one operation of the vocabulary tasks: at most one worker
\* moves, and at most one file is written by a task.
OneOperationPerStep ==
  /\ phase = "working" /\ phase' = "working" =>
       Cardinality({ w \in Workers : task'[w] # task[w] }) <= 1
  /\ Cardinality({ e \in writes' \ writes : e.by # Aggregator }) <= 1

\* C27: at every point of a run at most CONCURRENCY vocabulary tasks are in flight, no
\* two of them for the same vocabulary; and the operations of one task are sequential:
\* each step completes one operation of one task, and a task's writes happen in the
\* order of its awaits.
C27_PoolBoundsTasksInFlight ==
  /\ [](/\ Cardinality(InFlight) <= pool
        /\ \A w \in InFlight : w <= pool /\ task[w].i < Len(vocabs)
        /\ \A w \in InFlight, x \in InFlight : task[w].i = task[x].i => w = x
        /\ phase \in {"working", "grouping", "done"} =>
             \A i \in 0..(Len(vocabs) - 1) : WritesInProgramOrder(i))
  /\ [][OneOperationPerStep]_vars

\* Two tasks are in flight in a pool of two, one waiting for its download and one for
\* the write of a tiny term file.
C27_Witness ==
  /\ pool = 2
  /\ Cardinality(InFlight) = 2
  /\ \E w \in InFlight : task[w].pc = "fetch"
  /\ \E w \in InFlight : task[w].pc = "tinyWrite"

\* The records of the vocabulary with index i.
RecordsOf(i) == { j \in 1..Len(results) : results[j].prefix = vocabs[i + 1].prefix }

\* C28: in a run the registry info call of a vocabulary is made at most once and its
\* file is downloaded at most once, and only after the info call; once the vocabulary
\* has its record no task works on it again and its calls stay what they were when it
\* ended: one info call, and one download exactly if the task got as far as the
\* download; a vocabulary whose info call failed or whose download failed has made each
\* call once; and a record, once made, stays as it is for the rest of the run.
C28_NoRetryWithinRun ==
  /\ [](\A i \in DOMAIN requests :
          /\ requests[i].info <= 1
          /\ requests[i].file <= requests[i].info
          /\ Cardinality(RecordsOf(i)) <= 1
          /\ \A j \in RecordsOf(i) :
               /\ requests[i].info = 1
               /\ requests[i].file = IF results[j].detailed THEN 1 ELSE 0
               /\ \A w \in Workers : Active(w) => task[w].i # i)
  /\ [][run' = run =>
          /\ \A i \in DOMAIN requests :
               RecordsOf(i) # {} => requests'[i] = requests[i]
          /\ \A j \in 1..Len(results) : \E k \in 1..Len(results') : results'[k] = results[j]]_vars

\* The summary is written of a run in which one vocabulary's info call failed and the
\* other's download failed: each of the two calls was made once and not again.
C28_Witness ==
  /\ SummaryWritten
  /\ Len(vocabs) = 2
  /\ \E i \in DOMAIN requests : requests[i] = [info |-> 1, file |-> 0] /\ ~upstream[vocabs[i + 1].prefix].info.ok
  /\ \E i \in DOMAIN requests :
       /\ requests[i] = [info |-> 1, file |-> 1]
       /\ \E j \in RecordsOf(i) : ~results[j].ok /\ results[j].status = 404

\* The vocabulary at index i (from 0) has a call that never returns.
HungVocab(i) ==
  Hangs(upstream[vocabs[i + 1].prefix].info) \/ Hangs(upstream[vocabs[i + 1].prefix].http)

HungVocabs == { i \in 0..(Len(vocabs) - 1) : HungVocab(i) }

\* Worker w waits for a call that never returns.
Blocked(w) ==
  \/ task[w].pc = "resolve" /\ Hangs(upstream[Vocab(w).prefix].info)
  \/ task[w].pc = "fetch" /\ Hangs(upstream[Vocab(w).prefix].http)

\* Every vocabulary without a hung call has its record, the hung one has none, the worker
\* that claimed it waits, and every other worker of the pool has returned.
OthersCompleted ==
  /\ \A i \in 0..(Len(vocabs) - 1) : (RecordsOf(i) # {}) <=> i \notin HungVocabs
  /\ Cardinality({ w \in Workers : Blocked(w) }) = 1
  /\ \A w \in 1..pool : Blocked(w) \/ task[w].pc = "exit"

\* As long as a call hangs, the run is not past its workers.
NeverAggregates ==
  HungVocabs # {} =>
    /\ phase \in {"start", "working", "aborted"}
    /\ summary = <<>>
    /\ nsSummaries = NoFiles
    /\ \A e \in writes : e.by # Aggregator

\* C29: when one call of one task never returns, only the worker of that task waits
\* for ever: in a pool of at least two workers the others go on to claim and complete
\* every other vocabulary; but run() never gets past Promise.all, so the global summary
\* is never written.
C29_HungCallBlocksOnlyItsWorker ==
  /\ []NeverAggregates
  /\ [](\A w \in Workers : Blocked(w) => HungVocab(task[w].i))
  /\ [](Cardinality({ w \in Workers : Blocked(w) }) <= Cardinality(HungVocabs))
  /\ (HungVocabs # {} /\ listOk /\ pool >= 2) ~> OthersCompleted
  /\ [][OthersCompleted => OthersCompleted']_vars

\* The download of the first vocabulary claimed never returns; the other worker has
\* completed the two other vocabularies and returned.
C29_Witness ==
  /\ OthersCompleted
  /\ pool = 2
  /\ HungVocabs = {0}
  /\ Len(results) = 2
  /\ \E w \in Workers : Blocked(w) /\ task[w].pc = "fetch"

\* The records of the summary for vocabularies whose version was not resolved.
UnresolvedItems ==
  { j \in 1..Len(summary[1].items) :
      Unresolved(vocabs[IndexOf(summary[1].items[j].prefix) + 1]) }

\* C30 as stated: the record of a vocabulary whose version was not resolved is flagged
\* skipped, and the summary's skippedCount counts it.
C30_Original ==
  SummaryWritten =>
    /\ \A j \in UnresolvedItems : summary[1].items[j].skipped
    /\ summary[1].skippedCount >= Cardinality(UnresolvedItems)

\* C30 as amended: the record of a vocabulary whose version was not resolved (info call
\* failed, or no usable version) is a failure record, not a skip: ok = false, status 0,
\* skipped = false, with a note.  The summary counts it in count, but neither in okCount
\* nor in skippedCount: skippedCount is the number of cache hits.
C30_UnresolvedIsFailureNotSkip ==
  SummaryWritten =>
    /\ \A j \in UnresolvedItems :
         LET r == summary[1].items[j]
         IN ~r.ok /\ ~r.skipped /\ r.status = 0 /\ r.note # NULL
    /\ summary[1].count = Len(summary[1].items)
    /\ summary[1].skippedCount =
         Cardinality({ j \in 1..Len(summary[1].items) : summary[1].items[j].status = 304 })
    /\ summary[1].skippedCount + Cardinality(UnresolvedItems) <= summary[1].count
    /\ summary[1].okCount + Cardinality(UnresolvedItems) <= summary[1].count
    /\ \A j \in 1..Len(summary[1].items) :
         summary[1].items[j].skipped => j \notin UnresolvedItems

\* A summary of two records, one of a vocabulary whose info call failed and one of a
\* cache hit: skippedCount is 1.
C30_Witness ==
  /\ SummaryWritten
  /\ summary[1].count = 2
  /\ summary[1].skippedCount = 1
  /\ summary[1].okCount = 1
  /\ \E j \in UnresolvedItems : ~upstream[summary[1].items[j].prefix].info.ok

\* ------------------------------------------------------------------ C31
\* The subject has a literal value for predicate p, blank or not.
HasLiteral(store, iri, p) ==
  \E q \in store : /\ q.subject = NamedNode(iri)
                   /\ q.predicate = NamedNode(p)
                   /\ q.object.termType = "Literal"

\* The predicates of a chain that out can have been taken from.
SourcesOf(store, iri, chain, out) ==
  { k \in 1..Len(chain) : out # NULL /\ out \in TextsOf(store, iri, chain[k]) }

SummaryChains ==
  { <<LabelChain, "label">>, <<DescriptionChain, "description">> }

\* C31 as stated: no predicate of a chain is used when a predicate before it in the
\* chain has any literal value on the subject.
C31_Original ==
  (call.fn = "extractTermSummary" /\ call.called) =>
    \A c \in SummaryChains :
      \A m \in SourcesOf(call.input[1], call.input[2], c[1], call.output[1][c[2]]) :
        \A k \in 1..(m - 1) : ~HasLiteral(call.input[1], call.input[2], c[1][k])

\* C31: the first predicate of the chain with a literal value that is not blank decides
\* the label (or description), which is such a value of it, trimmed; a predicate is
\* never used when one before it in the chain has a non-blank literal value, and a
\* predicate whose literal values are all blank is passed over.
C31_FirstNonBlankLiteralDecides ==
  (call.fn = "extractTermSummary" /\ call.called) =>
    \A c \in SummaryChains :
      LET store == call.input[1]
          iri == call.input[2]
          out == call.output[1][c[2]]
          offers(k) == TextsOf(store, iri, c[1][k]) # {}
      IN /\ \A m \in SourcesOf(store, iri, c[1], out) : \A k \in 1..(m - 1) : ~offers(k)
         /\ \A k \in 1..Len(c[1]) :
              (offers(k) /\ \A j \in 1..(k - 1) : ~offers(j))
                => out \in TextsOf(store, iri, c[1][k])
         /\ (\A k \in 1..Len(c[1]) : ~offers(k)) => out = NULL

\* skos:prefLabel carries a blank literal only and rdfs:label a text: the label is the
\* rdfs:label; skos:definition carries a blank literal and a text: the description is
\* that text.
C31_Witness ==
  /\ call.fn = "extractTermSummary"
  /\ call.called
  /\ HasLiteral(call.input[1], call.input[2], skosPrefLabel)
  /\ TextsOf(call.input[1], call.input[2], skosPrefLabel) = {}
  /\ Quad(NamedNode(exThing), NamedNode(skosDefinition), Literal("  ")) \in call.input[1]
  /\ Quad(NamedNode(exThing), NamedNode(rdfsComment), Literal("A thing, commented.")) \in call.input[1]
  /\ call.output[1] = [label |-> "thing (label)", description |-> "A thing, defined."]

\* ------------------------------------------------------------------ C33
\* The usable entries of a response whose timestamp is the greatest.
LatestAt(versions) ==
  { k \in UsableAt(versions) :
      \A m \in UsableAt(versions) :
        parseIssuedMs(versions[m].issued) <= parseIssuedMs(versions[k].issued) }

\* A metadata record of a converted artifact that names the pair latest.
MetaNaming(latest) ==
  << [lovLatestFileURL |-> latest.fileURL, lovLatestIssued |-> latest.issued,
      convert |-> [ok |-> TRUE]] >>

\* C33: when several usable versions share the greatest timestamp, extractLatestVersion
\* returns the (fileURL, issued) pair of the first of them in the response's order; a
\* metadata record that names the pair returned for a response is up to date against
\* what extractLatestVersion returns for that response.
C33_TiesKeepResponseOrder ==
  (call.fn = "extractLatestVersion" /\ call.called /\ LatestAt(call.input) # {}) =>
    LET first == CHOOSE k \in LatestAt(call.input) : \A m \in LatestAt(call.input) : k <= m
    IN /\ call.output[1] = Version(call.input[first].fileURL, call.input[first].issued)
       /\ isUpToDate(TRUE, MetaNaming(call.output[1]), extractLatestVersion(call.input))

\* Three usable versions of one instant, the last two with another file and another
\* spelling of the instant than the first: the first is returned.
C33_Witness ==
  /\ call.fn = "extractLatestVersion"
  /\ call.called
  /\ LatestAt(call.input) = {1, 2, 3}
  /\ call.input[1] = Version(FileTtl, Issued2024Offset)
  /\ call.input[2] = Version(FileNew, Issued2024)
  /\ call.input[3] = Version(FileNew, Issued2024Offset)
  /\ call.output[1] = Version(FileTtl, Issued2024Offset)

\* ------------------------------------------------------------------ C32
\* Characters of IRIs in the order of their code units.
CodeUnits == "#%-./0123456789:?ABCDEFGHIJKLMNOPQRSTUVWXYZ_abcdefghijklmnopqrstuvwxyz~"

CodeOf(c) == CHOOSE k \in 1..Len(CodeUnits) : Char(CodeUnits, k) = c

\* a comes before b in the order of Array.prototype.sort without a comparator: at the
\* first position where they differ a has ended or has the smaller code unit.
LexLess(a, b) ==
  \E k \in 1..(Len(a) + 1) :
    /\ k <= Len(b)
    /\ SubSeq(a, 1, k - 1) = SubSeq(b, 1, k - 1)
    /\ k > Len(a) \/ CodeOf(Char(a, k)) < CodeOf(Char(b, k))

Ascending(list) == \A k \in 1..(Len(list) - 1) : LexLess(list[k], list[k + 1])

\* C32: the class list and the property list of findClassesAndProperties hold no IRI
\* twice and are in ascending lexicographic order, whatever the store's rdf:type quads
\* and however many of them type one subject.
C32_ListsSortedWithoutDuplicates ==
  (call.fn = "findClassesAndProperties" /\ call.called) =>
    \A list \in {call.output[1].classes, call.output[1].properties} :
      /\ \A k, m \in 1..Len(list) : list[k] = list[m] => k = m
      /\ Ascending(list)

\* All four IRIs are classes, three of them by two rdf:type quads each, and three are
\* properties: the lists have four and three entries.
C32_Witness ==
  /\ call.fn = "findClassesAndProperties"
  /\ call.called
  /\ Cardinality({ q \in call.input : q.object.value \in CLASS_TYPES }) = 7
  /\ call.output[1].classes = <<exOther, exThing, exKnows, exNote>>
  /\ call.output[1].properties = <<exOther, exKnows, exNote>>

\* ------------------------------------------------------------------ C34
\* What ok and skipped say about a record's files and status.
RecordConsistent(r) ==
  /\ r.ok <=> r.fileByPrefix # <<>>
  /\ r.ok <=> r.fileByUri # <<>>
  /\ r.skipped => (r.ok /\ r.status = 304)

\* The status of a record of this run with ok false: 0, 422 or the non-success HTTP
\* status the file server of its vocabulary answers with.
FailureStatus(r) ==
  ~r.ok => \/ r.status = 0
           \/ r.status = 422
           \/ /\ ~upstream[r.prefix].http.throws
              /\ r.status = upstream[r.prefix].http.status
              /\ ~ResOk(r.status)

\* C34: in every record processOne returns, ok is true exactly when fileByPrefix is
\* set and exactly when fileByUri is set; a skipped record has ok true and status 304;
\* a record with ok false has status 0, 422 or the non-success HTTP status of its
\* download; and the global summary has skippedCount <= okCount <= count.
C34_RecordsAreConsistent ==
  /\ \A w \in Workers :
       task[w].pc = "return" => (RecordConsistent(task[w].ret) /\ FailureStatus(task[w].ret))
  /\ \A j \in 1..Len(results) : RecordConsistent(results[j]) /\ FailureStatus(results[j])
  /\ \A j \in 1..Len(summary) :
       /\ summary[j].skippedCount <= summary[j].okCount
       /\ summary[j].okCount <= summary[j].count
       /\ \A k \in 1..Len(summary[j].items) : RecordConsistent(summary[j].items[k])

\* The summary of a run of two vocabularies: one is a cache hit, the download of the
\* other was answered with a non-success HTTP status.
C34_Witness ==
  /\ phase = "done"
  /\ Len(summary) = 1
  /\ summary[1].count = 2
  /\ summary[1].okCount = 1
  /\ summary[1].skippedCount = 1
  /\ \E k \in 1..2 : /\ ~summary[1].items[k].ok
                     /\ summary[1].items[k].status = upstream[summary[1].items[k].prefix].http.status
                     /\ summary[1].items[k].status \notin {0, 422}

\* ------------------------------------------------------------------ C35
\* Worker w writes a metadata record with convert.ok true in this step.
WritesConvertedMeta(w) ==
  /\ task[w].pc \in {"metaPrefix", "metaUri"}
  /\ task'[w].pc # task[w].pc
  /\ meta' # meta \/ writes' # writes
  /\ TaskMeta(w).convert.ok

\* The task of worker w has written the artifact to both locations, and the by-prefix
\* artifact is the conversion of the file the task downloaded.
ArtifactWrittenBy(w) ==
  /\ Wrote(task[w].i, OntPath(PrefixDir(Vocab(w)))) \in writes
  /\ Wrote(task[w].i, OntPath(UriDir(Vocab(w)))) \in writes
  /\ OntPath(UriDir(Vocab(w))) \in DOMAIN ont
  /\ OntPath(PrefixDir(Vocab(w))) \in DOMAIN ont
  /\ ont[OntPath(PrefixDir(Vocab(w)))] = task[w].conv.ttl
  /\ task[w].conv.ttl =
       parseAndSerializeToTurtle(task[w].fr.text, task[w].fr.contentType,
                                 task[w].latest.fileURL).ttl

MetaImpliesArtifact ==
  \A k \in 1..Len(vocabs) :
    (/\ MetaPath(PrefixDir(vocabs[k])) \in DOMAIN meta
     /\ meta[MetaPath(PrefixDir(vocabs[k]))].convert.ok)
      => OntPath(PrefixDir(vocabs[k])) \in DOMAIN ont

\* C35: a task writes a metadata record with convert.ok true only after it has written
\* the artifact converted from the downloaded file to both locations; and in every
\* state, also between the steps of a task, a by-prefix metadata record with convert.ok
\* true has the by-prefix artifact beside it.
C35_ConvertedMetaFollowsArtifact ==
  /\ []MetaImpliesArtifact
  /\ [][\A w \in Workers : WritesConvertedMeta(w) => ArtifactWrittenBy(w)]_vars

\* A task has written both artifacts and the by-prefix metadata record with convert.ok
\* true, and is about to write the by-uri record; another vocabulary has an artifact
\* and a record with convert.ok false beside it.
C35_Witness ==
  /\ \E w \in Workers :
       /\ task[w].pc = "metaUri"
       /\ task[w].convertOk
       /\ meta[MetaPath(PrefixDir(Vocab(w)))].convert.ok
       /\ meta[MetaPath(PrefixDir(Vocab(w)))].lovLatestFileURL = task[w].latest.fileURL
  /\ \E k \in 1..Len(vocabs) :
       /\ MetaPath(PrefixDir(vocabs[k])) \in DOMAIN meta
       /\ ~meta[MetaPath(PrefixDir(vocabs[k]))].convert.ok
       /\ OntPath(PrefixDir(vocabs[k])) \in DOMAIN ont

\* ------------------------------------------------------------------ C36
\* The rdf:type quads of a store that make iri a term of the kind.
ClassifyingQuads(store, kind, iri) ==
  { q \in store : /\ q.subject = NamedNode(iri)
                  /\ q.predicate = NamedNode(rdfType)
                  /\ q.object.termType = "NamedNode"
                  /\ q.object.value \in (IF kind = "classes" THEN CLASS_TYPES ELSE PROPERTY_TYPES) }

\* The terms of a list for which writeTinyTermFile has a file to write.
Writable(store, list) == SelectSeq(list, LAMBDA iri : TinyQuads(store, iri) # {})

\* A record returned after a conversion lists a link for each term found in the store.
LinksEveryTerm(t) ==
  (t.pc = "return" /\ t.ret.ok /\ ~t.ret.skipped) =>
    /\ [k \in 1..Len(t.ret.classLinks) |-> t.ret.classLinks[k].iri]
         = findClassesAndProperties(t.conv.store).classes
    /\ [k \in 1..Len(t.ret.propLinks) |-> t.ret.propLinks[k].iri]
         = findClassesAndProperties(t.conv.store).properties
    /\ t.ret.classCount = Len(findClassesAndProperties(t.conv.store).classes)
    /\ t.ret.propertyCount = Len(findClassesAndProperties(t.conv.store).properties)

AllWorkersExited ==
  \A w \in 1..pool : task[w].pc = "exit" /\ task[w].i >= Len(vocabs)

\* run() is over: the global summary of every vocabulary and the namespace summaries
\* are written.
RunCompleted ==
  /\ phase = "done"
  /\ Len(summary) = 1
  /\ summary[1].count = Len(vocabs)
  /\ Wrote(Aggregator, SummaryPath) \in writes

\* The shared counter never decreases, and a step that changes it adds one claim per
\* worker started or one claim of the worker that finished a task.
NextOnlyIncreases ==
  /\ next' >= next
  /\ next' # next => (next' = next + 1 \/ (next = 0 /\ next' = pool))

\* C37 as stated: whenever no call hangs, the run ends with the global summary written.
C37_Original == (phase = "start") ~> RunCompleted

\* C37: when every call returns and the listing call returns the list, the run
\* terminates for every pool size: the shared counter only increases, every worker of
\* the pool comes to claim an index past the end of the list and returns, and the global
\* summary is written; when the listing call throws, the run ends at once and the
\* summary is never written.
C37_RunTerminates ==
  /\ [][NextOnlyIncreases]_vars
  /\ (phase = "start" /\ listOk) ~> AllWorkersExited
  /\ (phase = "start" /\ listOk) ~> RunCompleted
  /\ (phase = "start" /\ ~listOk) ~> (phase = "aborted")
  /\ [](phase = "aborted" => (summary = <<>> /\ next = 0))
  /\ [][RunCompleted => RunCompleted']_vars

\* A run with one worker over three vocabularies has ended: the worker claimed index 3
\* after three tasks; or a run with two workers over one vocabulary, whose second worker
\* returned at once.
C37_Witness ==
  /\ RunCompleted
  /\ AllWorkersExited
  /\ \/ pool = 1 /\ Len(vocabs) = 3 /\ next = 4 /\ task[1].i = 3
     \/ pool = 2 /\ Len(vocabs) = 1 /\ next = 3 /\ task[2].i = 1

====
